---- MODULE Spec2Model ----
(***************************************************************************)
(* BatteryIQ: the telemetry receiver (backend/telemetry_service.py), the   *)
(* CSV validation and ingestion pipeline (backend/file_utils.py,           *)
(* backend/ingestion.py), the ORM session (db/session.py), the guest-flag  *)
(* services (backend/services.py), the data gallery query                  *)
(* (app/components/data_gallery.py) and the database editor                *)
(* (scripts/db_editor.py), modelled as one state machine over the          *)
(* database tables, the upload directory tree and the service counters.    *)
(***************************************************************************)
EXTENDS Integers, Sequences, FiniteSets, TLC

\* ------------------------------------------------------------------------
\* Bounds of the model
\* ------------------------------------------------------------------------
MaxClock == 1       \* the wall clock takes the values 0..MaxClock (seconds)
MaxReq == 2         \* requests the receiver accepts
MaxCalls == 2       \* calls of process_file
MaxEdits == 1       \* db_editor update commands
MaxOps == 3         \* create/update/delete service calls
MaxSvc == 4         \* start and stop calls on the telemetry service

TicksPerDay == 1    \* seconds of the model's day
MaxUserOps == 3      \* create/delete_user_with_profile calls
MaxSubmits == 1      \* Submit All clicks on the onboarding wizard
Sessions == {1, 2}              \* UI sessions (one script thread each)
Conns == {1, 2}                 \* client connections to the receiver

\* ------------------------------------------------------------------------
\* Program constants
\* ------------------------------------------------------------------------
REQUIRED_HEADERS == {"timestamp", "voltage", "current", "temperature"}
REQUIRED_COLUMNS == {"timestamp", "voltage", "current", "temperature"}
MAX_FILE_SIZE == 100 * 1024 * 1024

None == "None"

\* ------------------------------------------------------------------------
\* Uploaded files.  A CSV is described by what validateFile looks at: its
\* size in bytes, its header row and whether it holds empty data rows.
\* ------------------------------------------------------------------------
GoodCsv == [size |-> 64, headers |-> REQUIRED_HEADERS, emptyRows |-> 0]
WarnCsv == [size |-> 64, headers |-> REQUIRED_HEADERS \cup {"soc"}, emptyRows |-> 1]
NoVoltageCsv == [size |-> 64, headers |-> REQUIRED_HEADERS \ {"voltage"}, emptyRows |-> 0]
EmptyCsv == [size |-> 0, headers |-> {}, emptyRows |-> 0]
HugeCsv == [size |-> MAX_FILE_SIZE + 1, headers |-> REQUIRED_HEADERS, emptyRows |-> 0]


\* ------------------------------------------------------------------------
\* int(): the header strings the model sends and what int() makes of them
\* ------------------------------------------------------------------------
IsInt(h) == h \in {"1", "2", "7", "01"}

ParseInt(h) ==
    CASE h = "1" -> 1
      [] h = "01" -> 1
      [] h = "2" -> 2
      [] h = "7" -> 7
      [] OTHER -> 0

\* SQLite stores a numeric string written to an INTEGER column as the integer
StoreInt(v) ==
    CASE v = "0" -> 0
      [] v = "1" -> 1
      [] v = "2" -> 2
      [] OTHER -> 0

\* datetime.now().strftime(...): the clock at second and at day resolution
timestamp_str(now) == now
date_str(now) == now \div TicksPerDay

Max(S) == IF S = {} THEN 0 ELSE CHOOSE m \in S : \A x \in S : x <= m

\* INTEGER PRIMARY KEY: the next row id is one more than the largest id
NextId(rows) == Max({r.id : r \in rows}) + 1

VARIABLES
    clock,       \* datetime.now(), in seconds
    clients,     \* ids of the rows of table clients
    locations,   \* rows of table locations
    devices,     \* rows of table devices
    telemetry,   \* rows of table telemetry (BatteryData)
    manual,      \* rows of table manual_uploads (ManualUpload)
    disk,        \* the upload tree: path -> file content
    stats,       \* service_stats
    conn,        \* per connection: the request and the handler's position
    pf,          \* per UI session: the position inside process_file
    resp,        \* the last HTTP response the receiver sent
    pfres,       \* the last result process_file returned (to the session of lastOp)
    sess,        \* what the last get_session() block did
    ret,         \* what the last guest-flag toggle returned
    view,        \* the datasets the last gallery query returned, and to whom
    edit,        \* the last db_editor update command and its result
    calls,       \* process_file calls made so far
    edits,       \* db_editor commands run so far
    lastOp,      \* the operation that made the last step, and who made it
    received,    \* POST /telemetry/upload requests the receiver has taken up
    answered,    \* responses the receiver has sent to them
    report,      \* the counters GET /health or get_stats reported last
    ops,         \* create/update/delete service calls made so far
    crud,        \* what the last create/update/delete service call did
    svc,         \* the TelemetryService instance and its server threads
    onboarding,     \* st.session_state.onboarding of the admin's UI session
    confirm_cancel, \* st.session_state.confirm_cancel of that session
    admin_active_tab, \* st.session_state.admin_active_tab of that session
    cancels,        \* Cancel Everything clicks since the wizard state was last initialised
    shown,          \* what the last click on the wizard displayed
    submission,     \* what the Submit All clicks did
    users,          \* rows of table users
    profiles,       \* ids of the users with a file data/user_profiles/<id>.json
    ucall,          \* what the last create/delete_user_with_profile call did
    session_state,  \* page, user, username, role, user_id of a UI session
    verified,       \* a password was verified for this session since its last logout
    vf              \* a validateFile call on its way through the rows

vars == <<clock, clients, locations, devices, telemetry, manual, disk, stats,
          conn, pf, resp, pfres, sess, ret, view, edit, calls, edits, lastOp,
          received, answered, report, ops, crud, svc,
          onboarding, confirm_cancel, admin_active_tab, cancels, shown,
          submission, users, profiles, ucall,
          session_state, verified, vf>>

\* the state of the Streamlit sessions, of the users and of validateFile
uivars == <<onboarding, confirm_cancel, admin_active_tab, cancels, shown,
            submission, users, profiles, ucall,
            session_state, verified, vf>>

\* ------------------------------------------------------------------------
\* db/session.py
\* ------------------------------------------------------------------------
\* The tables a session works on
Db == [clients |-> clients, locations |-> locations, devices |-> devices,
       telemetry |-> telemetry, manual |-> manual]

\* get_session with session.commit() moved into the finally clause
get_session_commit_always(db, staged, outcome, seq) ==
    [db |-> staged,
     log |-> [outcome |-> outcome, committed |-> TRUE,
              rolled_back |-> outcome = "raise", reraised |-> outcome = "raise",
              closed |-> TRUE, seq |-> 1 - seq]]

\* get_session(): body is what the with-block did: outcome "normal" (ran to
\* its end), "return" (left by a return statement) or "raise"; staged is the
\* database as the session sees it after the body's changes.
get_session(db, staged, outcome, seq) ==
    LET raised == outcome = "raise"
        committed == ~raised              \* line 55, reached after the yield
        rolled_back == raised             \* line 57
    IN [db |-> IF committed THEN staged ELSE db,
        log |-> [outcome |-> outcome, committed |-> committed,
                 rolled_back |-> rolled_back, reraised |-> raised,
                 closed |-> TRUE, seq |-> 1 - seq]]

NoSession == [outcome |-> None, committed |-> FALSE, rolled_back |-> FALSE,
              reraised |-> FALSE, closed |-> TRUE, seq |-> 0]

\* ------------------------------------------------------------------------
\* backend/file_utils.py
\* ------------------------------------------------------------------------
ValidationResult(ok, msg, missing, warnings, csv) ==
    [success |-> ok, message |-> msg, missing |-> missing,
     warnings |-> warnings, fileSize |-> csv.size]

validateFile(files, path, requiredHeaders) ==
    IF path \notin DOMAIN files
    THEN ValidationResult(FALSE, "File does not exist.", {}, {}, EmptyCsv)
    ELSE LET csv == files[path]
             sizeWarn == IF csv.size > 100 * 1024 * 1024
                         THEN {"File is very large"} ELSE {}
             missing == {h \in requiredHeaders : h \notin csv.headers}
             rowWarn == IF csv.emptyRows > 0 THEN {"Found empty rows"} ELSE {}
         IN IF csv.size = 0
            THEN ValidationResult(FALSE, "File is empty.", {}, sizeWarn, csv)
            ELSE IF requiredHeaders # {} /\ missing # {}
            THEN ValidationResult(FALSE, "Missing required headers", missing,
                                  sizeWarn, csv)
            ELSE ValidationResult(TRUE, "CSV file is valid", {},
                                  sizeWarn \cup rowWarn, csv)

\* ------------------------------------------------------------------------
\* The initial values of a UI session (app/session.py,
\* app/components/client_onboarding.py), of the users and of validateFile
\* ------------------------------------------------------------------------
\* the identity that stands for no list: temp_location has no key 'devices'
NoList == 0

\* no Python list object exists
EmptyHeap == [i \in {} |-> <<>>]

\* initialize_onboarding_state, lines 11-29. The 'devices' entries hold the
\* identity of a Python list, and lists maps the identities to the lists.
\* current_location_index and temp_device, which nothing reads or writes
\* afterwards, and refresh_key, which only names the widgets, are left out.
InitialOnboarding ==
    [step |-> 1,
     client |-> [name |-> ""],
     locations |-> <<>>,
     temp_location |-> [nickname |-> "", address |-> "", devices |-> NoList],
     lists |-> EmptyHeap]

NoMessage == [level |-> None, message |-> None]

\* initialize_session_state, lines 8-18
InitialSessionState ==
    [page |-> "welcome", user |-> None, username |-> None, role |-> None,
     user_id |-> None]

InitUi ==
    /\ onboarding = InitialOnboarding
    /\ confirm_cancel = FALSE
    /\ admin_active_tab = None
    /\ cancels = 0
    /\ shown = NoMessage
    /\ submission = [count |-> 0, raised |-> FALSE, calls |-> 0, created |-> 0]
    /\ users = {}
    /\ profiles = {}
    /\ ucall = [count |-> 0, op |-> None, user_id |-> 0, raised |-> FALSE,
                returned |-> None]
    /\ session_state = InitialSessionState
    /\ verified = FALSE
    /\ vf = [pc |-> "idle", csv |-> None, i |-> 0, rowCount |-> 0,
             empty_rows |-> 0, warnings |-> {}, success |-> FALSE,
             message |-> None]

\* ------------------------------------------------------------------------
\* Initial state: a seeded database (two clients with one location each, two
\* devices of client 1),
\* an empty upload tree, a receiver that has handled nothing.
\* ------------------------------------------------------------------------
NoRequest == [kind |-> None]
IdleConn == [pc |-> "none", req |-> NoRequest, now |-> 0, path |-> <<>>,
             rowid |-> 0, result |-> [success |-> FALSE]]
IdleCall == [pc |-> "idle", client_id |-> 0, location_id |-> 0, device_id |-> 0,
             csv |-> EmptyCsv, now |-> 0, path |-> <<>>]
NoIds == <<0, 0, 0>>
NoResponse == [status |-> 0, kind |-> None, fields |-> {}, method |-> None,
               serial |-> "", did |-> "", wrote |-> FALSE, path |-> <<>>,
               rowid |-> 0]
NoResult == [success |-> FALSE, message |-> None, missing |-> {}, mode |-> None,
             ids |-> NoIds, csv |-> EmptyCsv, path |-> <<>>, rowid |-> 0]
NoView == [role |-> None, telemetry |-> {}, manual |-> {}]
NoEdit == [table |-> None, id |-> 0, success |-> FALSE]
NoReport == [by |-> None, total_uploads |-> 0, failed_uploads |-> 0,
             validation_failures |-> 0, files_with_warnings |-> 0]
NoCall == [raised |-> FALSE, returned |-> None, serial |-> ""]
\* _telemetry_service is None: no TelemetryService has been constructed.
\* threads holds every server thread ever started: "new" (started, HTTPServer
\* not yet created), "serving" (in serve_forever) or "dead"; thread and
\* server are the thread self.thread refers to and the thread that created
\* the HTTPServer self.server refers to (0 for None); last is the call that
\* changed the service last: "start", or "stop" (of a running service).
NoService == [instance |-> FALSE, running |-> FALSE, active |-> FALSE,
              server |-> 0, thread |-> 0, threads |-> <<>>, pc |-> "idle",
              calls |-> 0, last |-> None]

\* the service after start_telemetry_service(), its server thread listening
StartedService == [instance |-> TRUE, running |-> TRUE, active |-> TRUE,
                   server |-> 1, thread |-> 1, threads |-> <<"serving">>,
                   pc |-> "idle", calls |-> 0, last |-> "start"]

Init ==
    /\ clock = 0
    /\ clients = {1, 2}
    /\ locations = {[id |-> 1, client_id |-> 1], [id |-> 2, client_id |-> 2]}
    /\ devices = {[id |-> 1, serial_number |-> "S1", client_id |-> 1, location_id |-> 1],
                  [id |-> 2, serial_number |-> "S2", client_id |-> 1, location_id |-> 1]}
    /\ telemetry = {}
    /\ manual = {}
    /\ disk = <<>>
    /\ stats = [total_uploads |-> 0, failed_uploads |-> 0,
                validation_failures |-> 0, files_with_warnings |-> 0]
    /\ conn = [k \in Conns |-> IdleConn]
    /\ pf = [s \in Sessions |-> IdleCall]
    /\ resp = NoResponse
    /\ pfres = NoResult
    /\ sess = NoSession
    /\ ret = None
    /\ view = NoView
    /\ edit = NoEdit
    /\ calls = 0
    /\ edits = 0
    /\ lastOp = <<"init", 0>>
    /\ received = 0
    /\ answered = 0
    /\ report = NoReport
    /\ ops = 0
    /\ crud = NoCall
    /\ svc = StartedService
    /\ InitUi

\* ------------------------------------------------------------------------
\* The wall clock
\* ------------------------------------------------------------------------
Tick ==
    /\ UNCHANGED <<received, answered, report, ops, crud, svc>>
    /\ UNCHANGED uivars
    /\ clock < MaxClock
    /\ clock' = clock + 1
    /\ lastOp' = <<"tick", 0>>
    /\ UNCHANGED <<clients, locations, devices, telemetry, manual, disk, stats,
                   conn, pf, resp, pfres, sess, ret, view, edit, calls, edits>>

\* ------------------------------------------------------------------------
\* backend/telemetry_service.py: the requests the model sends
\* ------------------------------------------------------------------------
BaseUpload == [kind |-> "upload", ctype |-> "multipart/form-data",
               serial |-> "S1", cid |-> "1", lid |-> "1", did |-> "1",
               form |-> "file", ext |-> "csv", csv |-> GoodCsv]

UploadRequests ==
    {BaseUpload}
    \cup {[BaseUpload EXCEPT !.ctype = "text/plain"]}
    \cup {[BaseUpload EXCEPT !.serial = v] : v \in {"S2", ""}}
    \cup {[BaseUpload EXCEPT !.did = v] : v \in {"2", "7", "01", "x", ""}}
    \cup {[BaseUpload EXCEPT !.serial = "S2", !.did = "2"]}
    \cup {[BaseUpload EXCEPT !.cid = v] : v \in {"7", "x", ""}}
    \cup {[BaseUpload EXCEPT !.cid = "2", !.lid = "2"]}
    \cup {[BaseUpload EXCEPT !.lid = v] : v \in {"7", ""}}
    \cup {[BaseUpload EXCEPT !.form = v] : v \in {"nofile", "noname"}}
    \cup {[BaseUpload EXCEPT !.ext = "txt"]}
    \cup {[BaseUpload EXCEPT !.csv = v] : v \in {WarnCsv, NoVoltageCsv, EmptyCsv, HugeCsv}}

\* The handlers that are between accepting their request and answering it
Active == {k \in Conns : conn[k].pc # "none"}

\* the connection the next request arrives on
FreeConn(k) == conn[k].pc = "none" /\ \A j \in Conns : conn[j].pc = "none" => k <= j

\* a server that hands every connection to a thread of its own
ServerAcceptsThreaded == \E t \in DOMAIN svc.threads : svc.threads[t] = "serving"

\* the server threads that are in serve_forever
Serving == {t \in DOMAIN svc.threads : svc.threads[t] = "serving"}

\* HTTPServer (line 308) is the synchronous socketserver: serve_forever
\* accepts the next connection only after the handler of the previous one
\* has returned.
ServerAccepts == Active = {} /\ Serving # {}

\* BaseHTTPRequestHandler.send_error: an HTML error page, no JSON body.  A
\* response also records the device headers of its request and whether the
\* handler left a file or a row behind.
send_error(code, req, path, rowid) ==
    [status |-> code, kind |-> "html", fields |-> {}, method |-> "POST",
     serial |-> req.serial, did |-> req.did, wrote |-> path # <<>>, path |-> path,
     rowid |-> rowid]

\* send_response(200) followed by json.dumps(result)
send_json(result, req, path, rowid) ==
    [status |-> 200, kind |-> "json", fields |-> DOMAIN result, method |-> "POST",
     serial |-> req.serial, did |-> req.did, wrote |-> path # <<>>, path |-> path,
     rowid |-> rowid]

\* verify_device without the filter on Device.id
verify_device_by_serial(devs, serial_number, device_id) ==
    {d \in devs : d.serial_number = serial_number}

\* verify_device: the device row with this serial number and this id
verify_device(devs, serial_number, device_id) ==
    {d \in devs : d.serial_number = serial_number /\ d.id = device_id}

TelemetryPath(client_id, location_id, device_id, now) ==
    <<"telemetry", client_id, location_id, device_id, date_str(now),
      timestamp_str(now)>>

WriteFile(files, path, csv) == (path :> csv) @@ files
RemoveFile(files, path) == [p \in (DOMAIN files) \ {path} |-> files[p]]

\* a counter statement that runs twice
BumpTwice(field) == [stats EXCEPT ![field] = @ + 2]

\* service_stats[field] += 1
Bump(field) == [stats EXCEPT ![field] = @ + 1]

\* do_GET, lines 64-71: the counters of the /health response
health_response(st) ==
    [by |-> "health", total_uploads |-> st.total_uploads,
     failed_uploads |-> st.failed_uploads,
     validation_failures |-> st.validation_failures,
     files_with_warnings |-> st.files_with_warnings]

\* do_GET: /health reports the counters and changes nothing
HandleHealth(k) ==
    /\ UNCHANGED <<received, answered, ops, crud, svc>>
    /\ UNCHANGED uivars
    /\ ServerAccepts
    /\ FreeConn(k)
    /\ resp' = [status |-> 200, kind |-> "json",
                fields |-> {"status", "uptime_seconds", "total_uploads",
                            "failed_uploads", "validation_failures",
                            "files_with_warnings"},
                method |-> "GET", serial |-> "", did |-> "", wrote |-> FALSE,
                path |-> <<>>, rowid |-> 0]
    /\ report' = health_response(stats)
    /\ lastOp' = <<"health", k>>
    /\ UNCHANGED <<clock, clients, locations, devices, telemetry, manual, disk,
                   stats, conn, pf, pfres, sess, ret, view, edit, calls, edits>>

\* handle_telemetry_upload, lines 85-137, and save_telemetry_file up to the
\* write of the file (lines 176-207)
Accept(k, req) ==
    /\ UNCHANGED <<report, ops, crud, svc>>
    /\ UNCHANGED uivars
    /\ ServerAccepts
    /\ FreeConn(k)
    /\ received < MaxReq
    /\ received' = received + 1
    /\ lastOp' = <<"accept", k>>
    /\ UNCHANGED <<clock, clients, locations, devices, telemetry, manual, pf,
                   pfres, ret, view, edit, calls, edits>>
    /\ IF \/ req.ctype # "multipart/form-data"
          \/ req.serial = "" \/ req.cid = "" \/ req.lid = "" \/ req.did = ""
          \/ req.form # "file"
       THEN \* 400, answered before any counter is touched
            /\ resp' = send_error(400, req, <<>>, 0)
            /\ answered' = answered + 1
            /\ UNCHANGED <<conn, disk, stats, sess>>
       ELSE IF ~IsInt(req.did)
       THEN \* int(device_id) raises ValueError: the handler's except clause
            /\ resp' = send_error(500, req, <<>>, 0)
            /\ answered' = answered + 1
            /\ stats' = Bump("failed_uploads")
            /\ UNCHANGED <<conn, disk, sess>>
       ELSE LET found == verify_device(devices, req.serial, ParseInt(req.did))
                s == get_session(Db, Db, "return", sess.seq)
            IN /\ sess' = s.log
               /\ IF found = {}
                  THEN /\ resp' = send_error(401, req, <<>>, 0)
                       /\ answered' = answered + 1
                       /\ UNCHANGED <<conn, disk, stats>>
                  ELSE IF ~IsInt(req.cid) \/ ~IsInt(req.lid)
                  THEN \* int(client_id) or int(location_id) raises
                       /\ resp' = send_error(500, req, <<>>, 0)
                       /\ answered' = answered + 1
                       /\ stats' = Bump("failed_uploads")
                       /\ UNCHANGED <<conn, disk>>
                  ELSE IF req.ext # "csv" \/ req.csv.size > MAX_FILE_SIZE
                  THEN \* save_telemetry_file returns success False
                       /\ resp' = send_error(500, req, <<>>, 0)
                       /\ answered' = answered + 1
                       /\ stats' = Bump("failed_uploads")
                       /\ UNCHANGED <<conn, disk>>
                  ELSE LET path == TelemetryPath(ParseInt(req.cid), ParseInt(req.lid),
                                                 ParseInt(req.did), clock)
                       IN /\ disk' = WriteFile(disk, path, req.csv)
                          /\ conn' = [conn EXCEPT ![k] =
                                        [IdleConn EXCEPT !.pc = "validate", !.req = req,
                                                         !.now = clock, !.path = path]]
                          /\ UNCHANGED <<resp, stats, answered>>

\* save_telemetry_file, lines 209-233: validate the written file
SrvValidate(k) ==
    /\ UNCHANGED <<received, answered, report, ops, crud, svc>>
    /\ UNCHANGED uivars
    /\ conn[k].pc = "validate"
    /\ lastOp' = <<"srv_validate", k>>
    /\ UNCHANGED <<clock, clients, locations, devices, telemetry, manual, pf,
                   resp, pfres, sess, ret, view, edit, calls, edits>>
    /\ LET c == conn[k]
           v == validateFile(disk, c.path, REQUIRED_HEADERS)
       IN IF ~v.success
          THEN IF c.path \in DOMAIN disk
               THEN /\ disk' = RemoveFile(disk, c.path)
                    /\ stats' = Bump("validation_failures")
                    /\ conn' = [conn EXCEPT ![k].pc = "respond",
                                   ![k].result = [success |-> FALSE,
                                                  message |-> "Validation failed",
                                                  validation_details |-> v]]
               ELSE \* os.remove raises FileNotFoundError: the except clause
                    /\ conn' = [conn EXCEPT ![k].pc = "respond",
                                   ![k].result = [success |-> FALSE,
                                                  message |-> "Upload failed"]]
                    /\ UNCHANGED <<disk, stats>>
          ELSE /\ stats' = IF v.warnings # {} THEN Bump("files_with_warnings")
                           ELSE stats
               /\ conn' = [conn EXCEPT ![k].pc = "insert",
                              ![k].result = [success |-> TRUE, validation |-> v]]
               /\ UNCHANGED disk

\* A row of table telemetry violates no foreign key
ForeignKeysHold(row) ==
    /\ row.client_id \in clients
    /\ row.location_id \in {l.id : l \in locations}
    /\ row.device_id \in {d.id : d \in devices}

\* save_telemetry_file, lines 235-269: insert the row
SrvInsert(k, fault) ==
    /\ UNCHANGED <<received, answered, report, ops, crud, svc>>
    /\ UNCHANGED uivars
    /\ conn[k].pc = "insert"
    /\ lastOp' = <<"srv_insert", k>>
    /\ UNCHANGED <<clock, clients, locations, devices, disk, stats, pf, resp,
                   pfres, ret, view, edit, calls, edits>>
    /\ LET c == conn[k]
           entry == [id |-> NextId(telemetry),
                     client_id |-> ParseInt(c.req.cid),
                     location_id |-> ParseInt(c.req.lid),
                     device_id |-> ParseInt(c.req.did),
                     directory |-> c.path, guest_flag |-> 0]
           ok == ForeignKeysHold(entry) /\ ~fault
           staged == [Db EXCEPT !.telemetry = @ \cup {entry}]
           s == get_session(Db, staged, IF ok THEN "normal" ELSE "raise", sess.seq)
       IN /\ telemetry' = s.db.telemetry
          /\ manual' = s.db.manual
          /\ sess' = s.log
          /\ conn' = [conn EXCEPT ![k].pc = "respond",
                        ![k].rowid = IF ok THEN entry.id ELSE 0,
                        ![k].result =
                            IF ok
                            THEN [success |-> TRUE, message |-> "File uploaded successfully",
                                  file_id |-> entry.id, file_path |-> c.path,
                                  filename |-> c.path,
                                  validation_info |-> c.result.validation]
                            ELSE [success |-> FALSE, message |-> "Upload failed"]]

\* handle_telemetry_upload, lines 139-147: answer and count
SrvRespond(k) ==
    /\ UNCHANGED <<received, report, ops, crud, svc>>
    /\ UNCHANGED uivars
    /\ conn[k].pc = "respond"
    /\ lastOp' = <<"srv_respond", k>>
    /\ LET c == conn[k]
       IN /\ resp' = IF c.result.success
                     THEN send_json(c.result, c.req, c.path, c.rowid)
                     ELSE send_error(500, c.req, c.path, c.rowid)
          /\ stats' = IF c.result.success THEN Bump("total_uploads")
                      ELSE Bump("failed_uploads")
    /\ conn' = [conn EXCEPT ![k] = IdleConn]
    /\ answered' = answered + 1
    /\ UNCHANGED <<clock, clients, locations, devices, telemetry, manual, disk,
                   pf, pfres, sess, ret, view, edit, calls, edits>>

\* the server threads that have been started and have not ended
Alive == {t \in DOMAIN svc.threads : svc.threads[t] # "dead"}

\* is_running, line 335
is_running == svc.running /\ svc.thread # 0 /\ svc.thread \in Alive

\* get_stats, lines 339-357; the rate in whole percent
get_stats(st) ==
    [by |-> "get_stats", running |-> is_running,
     total_uploads |-> st.total_uploads,
     failed_uploads |-> st.failed_uploads,
     validation_failures |-> st.validation_failures,
     files_with_warnings |-> st.files_with_warnings,
     success_rate |-> IF st.total_uploads + st.failed_uploads > 0
                      THEN (st.total_uploads * 100)
                              \div (st.total_uploads + st.failed_uploads)
                      ELSE 0]

\* get_stats is called on the caller's thread (the UI), at any moment of the
\* server thread's work
GetStats ==
    /\ svc.instance
    /\ report' = get_stats(stats)
    /\ lastOp' = <<"get_stats", 0>>
    /\ UNCHANGED <<clock, clients, locations, devices, telemetry, manual, disk,
                   stats, conn, pf, resp, pfres, sess, ret, view, edit, calls,
                   edits, received, answered, ops, crud, svc>>
    /\ UNCHANGED uivars

Receiver ==
    \/ \E k \in Conns : HandleHealth(k)
    \/ \E k \in Conns, req \in UploadRequests : Accept(k, req)
    \/ \E k \in Conns : SrvValidate(k)
    \/ \E k \in Conns, fault \in BOOLEAN : SrvInsert(k, fault)
    \/ \E k \in Conns : SrvRespond(k)

NextRecv == Tick \/ Receiver

SpecRecv == Init /\ [][NextRecv]_vars

\* the receiver, and a caller of get_stats on another thread
NextStats == Receiver \/ GetStats

SpecStats == Init /\ [][NextStats]_vars

\* ------------------------------------------------------------------------
\* backend/ingestion.py
\* ------------------------------------------------------------------------
\* now.strftime('%d%m%Y'): the day of now, as the manual file name carries it
ddmmyyyy(now) == now \div TicksPerDay

\* manual/<date>/<serial>_<ddmmyyyy>.csv
ManualPath(now, serial) == <<"manual", date_str(now), serial, ddmmyyyy(now)>>

\* int(f.split("_")[0]) of every file of the date folder
ExistingSerials(files, date) ==
    {p[3] : p \in {q \in DOMAIN files : q[1] = "manual" /\ q[2] = date}}

get_next_manual_serial(files, date) == Max(ExistingSerials(files, date)) + 1

\* an id argument that is None (lines 55-57: the default)
NoneId == -1

\* The arguments the model calls process_file with: (client_id, location_id,
\* device_id), and the uploaded CSV
IdArgs == {<<NoneId, NoneId, NoneId>>, <<1, NoneId, 1>>, <<1, 1, 1>>, <<7, 1, 1>>,
           <<0, 1, 1>>}
CallCsvs == {GoodCsv, NoVoltageCsv}

\* bool(x) of an Optional[int]: None and 0 are false
Truthy(x) == x # NoneId /\ x # 0

\* line 80: client_id and location_id and device_id
TelemetryMode(ids) == Truthy(ids[1]) /\ Truthy(ids[2]) /\ Truthy(ids[3])

\* the id arguments of a running call
CallIds(c) == <<c.client_id, c.location_id, c.device_id>>

Returned(s, res) ==
    /\ pfres' = res
    /\ pf' = [pf EXCEPT ![s] = IdleCall]
    /\ lastOp' = <<"pf_return", s>>

\* process_file, lines 71-88 (telemetry: the file is saved) and lines 124-125
\* (manual: the serial is taken from the listing of the date folder)
PFCall(s, ids, csv) ==
    /\ UNCHANGED <<received, answered, report, ops, crud, svc>>
    /\ UNCHANGED uivars
    /\ pf[s].pc = "idle"
    /\ calls < MaxCalls
    /\ calls' = calls + 1
    /\ lastOp' = <<"pf_call", s>>
    /\ UNCHANGED <<clock, clients, locations, devices, telemetry, manual, stats,
                   conn, resp, pfres, sess, ret, view, edit, edits>>
    /\ IF TelemetryMode(ids)
       THEN LET path == TelemetryPath(ids[1], ids[2], ids[3], clock)
            IN /\ disk' = WriteFile(disk, path, csv)
               /\ pf' = [pf EXCEPT ![s] =
                           [pc |-> "t_validate", client_id |-> ids[1],
                            location_id |-> ids[2], device_id |-> ids[3],
                            csv |-> csv, now |-> clock, path |-> path]]
       ELSE LET serial == get_next_manual_serial(disk, date_str(clock))
            IN /\ pf' = [pf EXCEPT ![s] =
                           [pc |-> "m_save", client_id |-> ids[1],
                            location_id |-> ids[2], device_id |-> ids[3],
                            csv |-> csv, now |-> clock,
                            path |-> ManualPath(clock, serial)]]
               /\ UNCHANGED disk

\* lines 90-94: validate the saved telemetry file
PFValidate(s) ==
    /\ UNCHANGED <<received, answered, report, ops, crud, svc>>
    /\ UNCHANGED uivars
    /\ pf[s].pc = "t_validate"
    /\ UNCHANGED <<clock, clients, locations, devices, telemetry, manual, disk,
                   stats, conn, resp, sess, ret, view, edit, calls, edits>>
    /\ LET c == pf[s]
           v == validateFile(disk, c.path, REQUIRED_COLUMNS)
       IN IF ~v.success
          THEN Returned(s, [success |-> FALSE, message |-> v.message,
                            missing |-> v.missing, mode |-> "telemetry",
                            ids |-> CallIds(c),
                            csv |-> c.csv, path |-> c.path, rowid |-> 0])
          ELSE /\ pf' = [pf EXCEPT ![s].pc = "t_insert"]
               /\ lastOp' = <<"pf_validate", s>>
               /\ UNCHANGED pfres

\* process_file without the check of line 102
ReferencesExistUnchecked(client_id, location_id, device_id) == TRUE

\* lines 98-102: client, location and device are rows of their tables
ReferencesExist(client_id, location_id, device_id) ==
    /\ client_id \in clients
    /\ location_id \in {l.id : l \in locations}
    /\ device_id \in {d.id : d \in devices}

\* lines 96-118: look the references up and insert the telemetry row
PFInsertTelemetry(s, fault) ==
    /\ UNCHANGED <<received, answered, report, ops, crud, svc>>
    /\ UNCHANGED uivars
    /\ pf[s].pc = "t_insert"
    /\ UNCHANGED <<clock, clients, locations, devices, disk, stats, conn, resp,
                   ret, view, edit, calls, edits>>
    /\ LET c == pf[s]
           known == ReferencesExist(c.client_id, c.location_id, c.device_id)
           entry == [id |-> NextId(telemetry), client_id |-> c.client_id,
                     location_id |-> c.location_id, device_id |-> c.device_id,
                     directory |-> c.path, guest_flag |-> 0]
           staged == IF known THEN [Db EXCEPT !.telemetry = @ \cup {entry}] ELSE Db
           outcome == IF ~known THEN "return"
                      ELSE IF fault THEN "raise" ELSE "normal"
           t == get_session(Db, staged, outcome, sess.seq)
           res == [success |-> known /\ ~fault,
                   message |-> IF ~known THEN "Invalid client/location/device reference"
                               ELSE IF fault THEN "Processing failed"
                               ELSE "Telemetry file processed successfully",
                   missing |-> {}, mode |-> "telemetry", ids |-> CallIds(c),
                   csv |-> c.csv, path |-> c.path,
                   rowid |-> IF known /\ ~fault THEN entry.id ELSE 0]
       IN /\ telemetry' = t.db.telemetry
          /\ manual' = t.db.manual
          /\ sess' = t.log
          /\ Returned(s, res)

\* line 128: save the manual file under the serial taken before
PFSaveManual(s) ==
    /\ UNCHANGED <<received, answered, report, ops, crud, svc>>
    /\ UNCHANGED uivars
    /\ pf[s].pc = "m_save"
    /\ disk' = WriteFile(disk, pf[s].path, pf[s].csv)
    /\ pf' = [pf EXCEPT ![s].pc = "m_insert"]
    /\ lastOp' = <<"pf_save", s>>
    /\ UNCHANGED <<clock, clients, locations, devices, telemetry, manual, stats,
                   conn, resp, pfres, sess, ret, view, edit, calls, edits>>

\* lines 130-141: insert the manual-upload row
PFInsertManual(s, fault) ==
    /\ UNCHANGED <<received, answered, report, ops, crud, svc>>
    /\ UNCHANGED uivars
    /\ pf[s].pc = "m_insert"
    /\ UNCHANGED <<clock, clients, locations, devices, disk, stats, conn, resp,
                   ret, view, edit, calls, edits>>
    /\ LET c == pf[s]
           entry == [id |-> NextId(manual), file_directory |-> c.path,
                     guest_flag |-> 0]
           staged == [Db EXCEPT !.manual = @ \cup {entry}]
           t == get_session(Db, staged, IF fault THEN "raise" ELSE "normal", sess.seq)
           res == [success |-> ~fault,
                   message |-> IF fault THEN "Processing failed"
                               ELSE "Manual file uploaded successfully",
                   missing |-> {}, mode |-> "manual", ids |-> CallIds(c),
                   csv |-> c.csv, path |-> c.path,
                   rowid |-> IF fault THEN 0 ELSE entry.id]
       IN /\ telemetry' = t.db.telemetry
          /\ manual' = t.db.manual
          /\ sess' = t.log
          /\ Returned(s, res)

Ingestion ==
    \/ \E s \in Sessions, ids \in IdArgs, csv \in CallCsvs : PFCall(s, ids, csv)
    \/ \E s \in Sessions : PFValidate(s)
    \/ \E s \in Sessions, fault \in BOOLEAN : PFInsertTelemetry(s, fault)
    \/ \E s \in Sessions : PFSaveManual(s)
    \/ \E s \in Sessions, fault \in BOOLEAN : PFInsertManual(s, fault)

NextIngest == Tick \/ Ingestion

SpecIngest == Init /\ [][NextIngest]_vars

\* ------------------------------------------------------------------------
\* backend/services.py: the guest flag
\* ------------------------------------------------------------------------
\* a toggle that only ever sets the flag
ToggledOn(flag) == 1

\* line 484 and line 495: 1 if guest_flag == 0 else 0
Toggled(flag) == IF flag = 0 THEN 1 ELSE 0

\* toggle_telemetry_guest_flag / toggle_manual_upload_guest_flag on the rows
\* of one table: the rows afterwards and the row returned (None if no row has
\* the id)
toggle_guest_flag(rows, id) ==
    LET hit == {r \in rows : r.id = id}
    IN [rows |-> {IF r.id = id THEN [r EXCEPT !.guest_flag = Toggled(@)] ELSE r :
                    r \in rows},
        returned |-> IF hit = {} THEN None ELSE "row"]

RowIds(rows) == 1 .. (Max({r.id : r \in rows}) + 1)

ToggleTelemetry(id) ==
    /\ UNCHANGED <<received, answered, report, ops, crud, svc>>
    /\ UNCHANGED uivars
    /\ LET t == toggle_guest_flag(telemetry, id)
           g == get_session(Db, [Db EXCEPT !.telemetry = t.rows], "return", sess.seq)
       IN /\ telemetry' = g.db.telemetry
          /\ manual' = g.db.manual
          /\ sess' = g.log
          /\ ret' = t.returned
    /\ lastOp' = <<"toggle_telemetry", id>>
    /\ UNCHANGED <<clock, clients, locations, devices, disk, stats, conn, pf,
                   resp, pfres, view, edit, calls, edits>>

ToggleManual(id) ==
    /\ UNCHANGED <<received, answered, report, ops, crud, svc>>
    /\ UNCHANGED uivars
    /\ LET t == toggle_guest_flag(manual, id)
           g == get_session(Db, [Db EXCEPT !.manual = t.rows], "return", sess.seq)
       IN /\ telemetry' = g.db.telemetry
          /\ manual' = g.db.manual
          /\ sess' = g.log
          /\ ret' = t.returned
    /\ lastOp' = <<"toggle_manual", id>>
    /\ UNCHANGED <<clock, clients, locations, devices, disk, stats, conn, pf,
                   resp, pfres, view, edit, calls, edits>>

\* ------------------------------------------------------------------------
\* app/components/data_gallery.py
\* ------------------------------------------------------------------------
Roles == {"scientist", "client", "guest"}
DataTypes == {"All Types", "Telemetry", "Manual"}

\* clients[0] of get_cached_clients()
FirstClient == IF clients = {} THEN {}
               ELSE {CHOOSE c \in clients : \A d \in clients : c <= d}

\* get_filtered_datasets without the two guest filters (lines 277 and 313)
get_filtered_datasets_unfiltered(user_role, filter_data_type) ==
    LET accessible_clients == IF user_role = "client" THEN FirstClient ELSE clients
        can_see_manual == user_role # "client"
        shownT == IF filter_data_type \in {"All Types", "Telemetry"}
                  THEN {f \in telemetry : f.client_id \in accessible_clients}
                  ELSE {}
        shownM == IF filter_data_type \in {"All Types", "Manual"} /\ can_see_manual
                  THEN manual
                  ELSE {}
    IN [role |-> user_role,
        telemetry |-> {f.id : f \in shownT},
        manual |-> {f.id : f \in shownM}]

\* get_filtered_datasets, lines 235-345: the ids of the telemetry rows and of
\* the manual uploads shown to a session of this role
get_filtered_datasets(user_role, filter_data_type) ==
    LET accessible_clients == IF user_role = "client" THEN FirstClient ELSE clients
        can_see_manual == user_role # "client"
        shownT == IF filter_data_type \in {"All Types", "Telemetry"}
                  THEN {f \in telemetry :
                          /\ f.client_id \in accessible_clients
                          /\ ~(user_role = "guest" /\ f.guest_flag = 0)}
                  ELSE {}
        shownM == IF filter_data_type \in {"All Types", "Manual"} /\ can_see_manual
                  THEN {f \in manual : ~(user_role = "guest" /\ f.guest_flag = 0)}
                  ELSE {}
    IN [role |-> user_role,
        telemetry |-> {f.id : f \in shownT},
        manual |-> {f.id : f \in shownM}]

GalleryQuery(user_role, filter_data_type) ==
    /\ UNCHANGED <<received, answered, report, ops, crud, svc>>
    /\ UNCHANGED uivars
    /\ view' = get_filtered_datasets(user_role, filter_data_type)
    /\ lastOp' = <<"gallery", 0>>
    /\ UNCHANGED <<clock, clients, locations, devices, telemetry, manual, disk,
                   stats, conn, pf, resp, pfres, sess, ret, edit, calls, edits>>

\* ------------------------------------------------------------------------
\* scripts/db_editor.py
\* ------------------------------------------------------------------------
EditTables == {"telemetry", "manual_uploads", "widgets"}
EditUpdates ==
    {<<<<"guest_flag", v>>>> : v \in {"0", "2"}}
    \cup {<<<<"colour", "red">>>>}
    \cup {<<<<"guest_flag", "1">>, <<"colour", "red">>>>}

\* hasattr(record, column) for the columns the model writes
HasColumn(column) == column = "guest_flag"

\* lines 75-90: setattr for each pair, in order, until a column is unknown
RECURSIVE ApplyUpdates(_, _)
ApplyUpdates(record, updates) ==
    IF updates = <<>> THEN [record |-> record, ok |-> TRUE]
    ELSE IF ~HasColumn(Head(updates)[1]) THEN [record |-> record, ok |-> FALSE]
    ELSE ApplyUpdates([record EXCEPT !.guest_flag = StoreInt(Head(updates)[2])],
                      Tail(updates))

\* update_record on the rows of one table: every path out of the with block
\* is a return or the end of the block, so the session commits what setattr
\* has changed so far
update_rows(rows, record_id, updates) ==
    LET hit == {r \in rows : r.id = record_id}
    IN IF hit = {} THEN [rows |-> rows, success |-> FALSE]
       ELSE LET record == CHOOSE r \in hit : TRUE
                a == ApplyUpdates(record, updates)
            IN [rows |-> (rows \ {record}) \cup {a.record}, success |-> a.ok]

UpdateRecord(table_name, record_id, updates) ==
    /\ UNCHANGED <<received, answered, report, ops, crud, svc>>
    /\ UNCHANGED uivars
    /\ edits < MaxEdits
    /\ edits' = edits + 1
    /\ lastOp' = <<"update_record", record_id>>
    /\ UNCHANGED <<clock, clients, locations, devices, disk, stats, conn, pf,
                   resp, pfres, ret, view, calls>>
    /\ IF table_name \notin {"telemetry", "manual_uploads"}
       THEN /\ edit' = [table |-> table_name, id |-> record_id,
                        updates |-> updates, success |-> FALSE]
            /\ UNCHANGED <<telemetry, manual, sess>>
       ELSE LET u == update_rows(IF table_name = "telemetry" THEN telemetry
                                 ELSE manual, record_id, updates)
                staged == IF table_name = "telemetry"
                          THEN [Db EXCEPT !.telemetry = u.rows]
                          ELSE [Db EXCEPT !.manual = u.rows]
                g == get_session(Db, staged,
                                 IF u.success THEN "normal" ELSE "return", sess.seq)
            IN /\ telemetry' = g.db.telemetry
               /\ manual' = g.db.manual
               /\ sess' = g.log
               /\ edit' = [table |-> table_name, id |-> record_id,
                           success |-> u.success]

Flags ==
    \/ \E id \in RowIds(telemetry) : ToggleTelemetry(id)
    \/ \E id \in RowIds(manual) : ToggleManual(id)
    \/ \E r \in Roles, t \in DataTypes : GalleryQuery(r, t)
    \/ \E t \in EditTables, id \in 1..2, u \in EditUpdates : UpdateRecord(t, id, u)

\* A database that two telemetry uploads of device 1 (at seconds 0 and 1) and
\* one manual upload (at second 0) have filled
InitSeeded ==
    /\ clock = MaxClock
    /\ clients = {1, 2}
    /\ locations = {[id |-> 1, client_id |-> 1], [id |-> 2, client_id |-> 2]}
    /\ devices = {[id |-> 1, serial_number |-> "S1", client_id |-> 1, location_id |-> 1],
                  [id |-> 2, serial_number |-> "S2", client_id |-> 1, location_id |-> 1]}
    /\ telemetry = {[id |-> 1, client_id |-> 1, location_id |-> 1, device_id |-> 1,
                     directory |-> TelemetryPath(1, 1, 1, 0), guest_flag |-> 0],
                    [id |-> 2, client_id |-> 1, location_id |-> 1, device_id |-> 1,
                     directory |-> TelemetryPath(1, 1, 1, 1), guest_flag |-> 0]}
    /\ manual = {[id |-> 1, file_directory |-> ManualPath(0, 1), guest_flag |-> 0]}
    /\ disk = (TelemetryPath(1, 1, 1, 0) :> GoodCsv)
              @@ (TelemetryPath(1, 1, 1, 1) :> GoodCsv)
              @@ (ManualPath(0, 1) :> NoVoltageCsv)
    /\ stats = [total_uploads |-> 0, failed_uploads |-> 0,
                validation_failures |-> 0, files_with_warnings |-> 0]
    /\ conn = [k \in Conns |-> IdleConn]
    /\ pf = [s \in Sessions |-> IdleCall]
    /\ resp = NoResponse
    /\ pfres = NoResult
    /\ sess = NoSession
    /\ ret = None
    /\ view = NoView
    /\ edit = NoEdit
    /\ calls = 0
    /\ edits = 0
    /\ lastOp = <<"init", 0>>
    /\ received = 0
    /\ answered = 0
    /\ report = NoReport
    /\ ops = 0
    /\ crud = NoCall
    /\ svc = StartedService
    /\ InitUi

SpecFlags == InitSeeded /\ [][Flags]_vars

\* ------------------------------------------------------------------------
\* backend/services.py: create, update and delete of clients, locations and
\* devices.  The database enforces the constraints of db/models.py when the
\* session flushes: a violated constraint raises IntegrityError out of the
\* with block, and get_session rolls back.
\* ------------------------------------------------------------------------
\* the arguments the model calls the services with
IdArgsCrud == 1..3
SerialArgs == {"S1", "S3"}

\* a database that keeps the rows that depend on a deleted row
CascadeNone(db) == db

\* ON DELETE CASCADE (and the relationships' cascade="all, delete-orphan"):
\* the rows that depend on a row that is gone are gone
Cascade(db) ==
    LET locs == {l \in db.locations : l.client_id \in db.clients}
        devs == {d \in db.devices : /\ d.client_id \in db.clients
                                    /\ d.location_id \in {l.id : l \in locs}}
        tel == {t \in db.telemetry : /\ t.client_id \in db.clients
                                     /\ t.location_id \in {l.id : l \in locs}
                                     /\ t.device_id \in {d.id : d \in devs}}
    IN [db EXCEPT !.locations = locs, !.devices = devs, !.telemetry = tel]

\* a devices table without the unique constraint on serial_number
SerialsUniqueUnenforced(db) == TRUE

\* Device.serial_number, unique=True
SerialsUnique(db) ==
    \A d1, d2 \in db.devices : d1.serial_number = d2.serial_number => d1.id = d2.id

\* the ForeignKey columns of Location, Device and BatteryData, with PRAGMA
\* foreign_keys=ON
ForeignKeysEnforced(db) ==
    /\ \A l \in db.locations : l.client_id \in db.clients
    /\ \A d \in db.devices : /\ d.client_id \in db.clients
                             /\ d.location_id \in {l.id : l \in db.locations}
    /\ \A t \in db.telemetry : /\ t.client_id \in db.clients
                               /\ t.location_id \in {l.id : l \in db.locations}
                               /\ t.device_id \in {d.id : d \in db.devices}

\* flush: the statements the session sends are accepted by the database
FlushAccepted(db) == ForeignKeysEnforced(db) /\ SerialsUnique(db)

\* a service call: its with block staged a database; fault stands for a
\* constraint on a column the model does not hold (Client.name,
\* uq_client_address)
ServiceCall(staged, returned, serial, fault) ==
    /\ ops < MaxOps
    /\ ops' = ops + 1
    /\ LET ok == FlushAccepted(staged) /\ ~fault
           g == get_session(Db, staged, IF ok THEN "return" ELSE "raise", sess.seq)
       IN /\ clients' = g.db.clients
          /\ locations' = g.db.locations
          /\ devices' = g.db.devices
          /\ telemetry' = g.db.telemetry
          /\ manual' = g.db.manual
          /\ sess' = g.log
          /\ crud' = [raised |-> ~ok, returned |-> IF ok THEN returned ELSE None,
                      serial |-> serial]
    /\ UNCHANGED <<clock, disk, stats, conn, pf, resp, pfres, ret, view, edit,
                   calls, edits, received, answered, report, svc>>
    /\ UNCHANGED uivars

Found(rows, id) == IF \E r \in rows : r.id = id THEN "row" ELSE None

\* create_client, lines 93-98
CreateClient(fault) ==
    /\ lastOp' = <<"create_client", Max(clients) + 1>>
    /\ ServiceCall(
                [Db EXCEPT !.clients = @ \cup {Max(clients) + 1}], "row", "", fault)

\* update_client, lines 111-119: the columns of Client are not in the model
UpdateClient(client_id, fault) ==
    /\ lastOp' = <<"update_client", client_id>>
    /\ ServiceCall(Db,
                IF client_id \in clients THEN "row" ELSE None, "",
                fault /\ client_id \in clients)

\* delete_client, lines 122-129
DeleteClient(client_id) ==
    /\ lastOp' = <<"delete_client", client_id>>
    /\ ServiceCall(
                Cascade([Db EXCEPT !.clients = @ \ {client_id}]),
                IF client_id \in clients THEN "True" ELSE "False", "", FALSE)

\* create_location, lines 135-144
CreateLocation(client_id, fault) ==
    /\ lastOp' = <<"create_location", NextId(locations)>>
    /\ ServiceCall(
                [Db EXCEPT !.locations =
                    @ \cup {[id |-> NextId(locations), client_id |-> client_id]}],
                "row", "", fault)

\* update_location, lines 162-170, with client_id among the keyword arguments
UpdateLocation(location_id, client_id) ==
    /\ lastOp' = <<"update_location", location_id>>
    /\ ServiceCall(
                [Db EXCEPT !.locations =
                    {IF l.id = location_id THEN [l EXCEPT !.client_id = client_id]
                     ELSE l : l \in @}],
                Found(locations, location_id), "", FALSE)

\* delete_location, lines 173-180
DeleteLocation(location_id) ==
    /\ lastOp' = <<"delete_location", location_id>>
    /\ ServiceCall(
                Cascade([Db EXCEPT !.locations = {l \in @ : l.id # location_id}]),
                IF Found(locations, location_id) = "row" THEN "True" ELSE "False",
                "", FALSE)

\* create_device, lines 186-199
CreateDevice(client_id, location_id, serial) ==
    /\ lastOp' = <<"create_device", NextId(devices)>>
    /\ ServiceCall(
                [Db EXCEPT !.devices =
                    @ \cup {[id |-> NextId(devices), serial_number |-> serial,
                             client_id |-> client_id, location_id |-> location_id]}],
                "row", serial, FALSE)

\* the keyword arguments the model calls update_device with
DeviceKwargs ==
    {[serial_number |-> v] : v \in SerialArgs}
    \cup {[client_id |-> c] : c \in IdArgsCrud}
    \cup {[location_id |-> l] : l \in IdArgsCrud}
    \cup {[serial_number |-> "S1", location_id |-> 2]}

\* lines 231-233: setattr for every keyword argument
SetAttrs(row, kwargs) ==
    [f \in DOMAIN row |-> IF f \in DOMAIN kwargs THEN kwargs[f] ELSE row[f]]

\* update_device, lines 227-235
UpdateDevice(device_id, kwargs) ==
    /\ lastOp' = <<"update_device", device_id>>
    /\ ServiceCall(
                [Db EXCEPT !.devices =
                    {IF d.id = device_id THEN SetAttrs(d, kwargs) ELSE d : d \in @}],
                Found(devices, device_id),
                IF "serial_number" \in DOMAIN kwargs THEN kwargs.serial_number ELSE "",
                FALSE)

\* delete_device, lines 238-245
DeleteDevice(device_id) ==
    /\ lastOp' = <<"delete_device", device_id>>
    /\ ServiceCall(
                Cascade([Db EXCEPT !.devices = {d \in @ : d.id # device_id}]),
                IF Found(devices, device_id) = "row" THEN "True" ELSE "False",
                "", FALSE)

Services ==
    \/ \E fault \in BOOLEAN : CreateClient(fault)
    \/ \E c \in IdArgsCrud, fault \in BOOLEAN : UpdateClient(c, fault)
    \/ \E c \in IdArgsCrud : DeleteClient(c)
    \/ \E c \in IdArgsCrud, fault \in BOOLEAN : CreateLocation(c, fault)
    \/ \E l \in IdArgsCrud, c \in IdArgsCrud : UpdateLocation(l, c)
    \/ \E l \in IdArgsCrud : DeleteLocation(l)
    \/ \E c \in IdArgsCrud, l \in IdArgsCrud, v \in SerialArgs : CreateDevice(c, l, v)
    \/ \E d \in IdArgsCrud, kw \in DeviceKwargs : UpdateDevice(d, kw)
    \/ \E d \in IdArgsCrud : DeleteDevice(d)

SpecCrud == InitSeeded /\ [][Services]_vars

\* ------------------------------------------------------------------------
\* backend/telemetry_service.py: TelemetryService
\* ------------------------------------------------------------------------
SvcUnchanged ==
    UNCHANGED <<clock, clients, locations, devices, telemetry, manual, disk,
                stats, conn, pf, resp, pfres, sess, ret, view, edit, calls,
                edits, received, answered, report, ops, crud,
                uivars>>

\* start_telemetry_service (viaGlobal, lines 364-372: the instance is
\* constructed if there is none) or start() on the instance, up to
\* self.thread.start() (lines 283-293)
StartBegin(viaGlobal) ==
    /\ svc.pc = "idle"
    /\ svc.calls < MaxSvc
    /\ viaGlobal \/ svc.instance
    /\ svc' = IF svc.running
              THEN \* "Telemetry service already running"
                   [svc EXCEPT !.calls = @ + 1]
              ELSE [svc EXCEPT !.instance = TRUE, !.calls = @ + 1,
                               !.threads = Append(@, "new"),
                               !.thread = Len(svc.threads) + 1,
                               !.pc = "starting", !.last = "start"]
    /\ lastOp' = <<IF svc.running THEN "start_noop" ELSE "start", 0>>
    /\ SvcUnchanged

\* start(), lines 295-297
StartFinish ==
    /\ svc.pc = "starting"
    /\ svc' = [svc EXCEPT !.running = TRUE, !.active = TRUE, !.pc = "idle"]
    /\ lastOp' = <<"started", 0>>
    /\ SvcUnchanged

\* _run_server on thread t, lines 307-314: HTTPServer(...) binds the port, or
\* raises OSError when the port is taken (by a serving thread of this
\* service, or, portTaken, by another process)
RunServer(t, portTaken) ==
    /\ t \in DOMAIN svc.threads
    /\ svc.threads[t] = "new"
    /\ svc' = IF Serving = {} /\ ~portTaken
              THEN [svc EXCEPT !.threads[t] = "serving", !.server = t]
              ELSE [svc EXCEPT !.threads[t] = "dead", !.running = FALSE,
                               !.active = FALSE]
    /\ lastOp' = <<"run_server", t>>
    /\ SvcUnchanged

\* stop(), lines 318-331: shutdown() ends serve_forever of self.server, whose
\* thread then returns from _run_server
Stop ==
    /\ svc.pc = "idle"
    /\ svc.instance
    /\ svc.calls < MaxSvc
    /\ Active = {}
    /\ svc' = IF ~svc.running THEN [svc EXCEPT !.calls = @ + 1]
              ELSE [svc EXCEPT !.calls = @ + 1, !.running = FALSE,
                               !.active = FALSE, !.last = "stop",
                               !.threads = [t \in DOMAIN @ |->
                                              IF t = svc.server THEN "dead"
                                              ELSE @[t]]]
    /\ lastOp' = <<"stop", 0>>
    /\ SvcUnchanged

Service ==
    \/ \E viaGlobal \in BOOLEAN : StartBegin(viaGlobal)
    \/ StartFinish
    \/ \E t \in 1..MaxSvc, portTaken \in BOOLEAN : RunServer(t, portTaken)
    \/ Stop
    \/ GetStats

\* the module as imported: no service instance yet
InitSvc ==
    /\ clock = 0
    /\ clients = {1, 2}
    /\ locations = {[id |-> 1, client_id |-> 1], [id |-> 2, client_id |-> 2]}
    /\ devices = {[id |-> 1, serial_number |-> "S1", client_id |-> 1, location_id |-> 1],
                  [id |-> 2, serial_number |-> "S2", client_id |-> 1, location_id |-> 1]}
    /\ telemetry = {}
    /\ manual = {}
    /\ disk = <<>>
    /\ stats = [total_uploads |-> 0, failed_uploads |-> 0,
                validation_failures |-> 0, files_with_warnings |-> 0]
    /\ conn = [k \in Conns |-> IdleConn]
    /\ pf = [s \in Sessions |-> IdleCall]
    /\ resp = NoResponse
    /\ pfres = NoResult
    /\ sess = NoSession
    /\ ret = None
    /\ view = NoView
    /\ edit = NoEdit
    /\ calls = 0
    /\ edits = 0
    /\ lastOp = <<"init", 0>>
    /\ received = 0
    /\ answered = 0
    /\ report = NoReport
    /\ ops = 0
    /\ crud = NoCall
    /\ svc = NoService
    /\ InitUi

SpecSvc == InitSvc /\ [][Service]_vars

\* ------------------------------------------------------------------------
\* app/components/client_onboarding.py: the onboarding wizard of one admin
\* session. One action is one click: the script run the click starts renders
\* the step, which stores the values of the step's text inputs in the session
\* state, and then runs the branch of the clicked button.
\* ------------------------------------------------------------------------
\* what the admin may have typed into the inputs of a step
NicknameInputs == {"", "HQ"}
AddressInputs == {"", "1 Main St"}
SerialInputs == {"", "S1", "S3", " S3", "S4"}

\* str.strip() on these inputs
strip(str) == CASE str = " " -> ""
                [] str = " S3" -> "S3"
                [] OTHER -> str

Message(level, message) == [level |-> level, message |-> message]

\* the variables the wizard's clicks leave alone
NotWizard == <<clock, telemetry, manual, disk, stats, conn, pf, resp, pfres,
               ret, view, edit, calls, edits, received, answered, report, ops,
               crud, svc, users, profiles, ucall, session_state, verified, vf>>

\* the list objects the wizard state refers to, and the state without the
\* lists nothing refers to any more
Referenced(o) ==
    {o.locations[k].devices : k \in DOMAIN o.locations}
        \cup ({o.temp_location.devices} \ {NoList})

Collected(o) == [o EXCEPT !.lists = [i \in Referenced(o) |-> o.lists[i]]]

\* a new list object: [] at lines 170 and 305
NewList(o) == CHOOSE i \in 1..(Cardinality(Referenced(o)) + 1) : i \notin Referenced(o)

\* reset_onboarding, lines 33-35: only the key 'onboarding' is deleted
reset_onboarding == InitialOnboarding

\* go_to_step, lines 471-476, on the wizard state; the action that uses it
\* sets admin_active_tab
go_to_step(o, step_number) == [o EXCEPT !.step = step_number]

\* temp_location.get('devices', []), line 202
temp_devices(o) ==
    IF o.temp_location.devices = NoList THEN <<>>
    ELSE o.lists[o.temp_location.devices]

\* lines 146 and 157: the step stores its two text inputs
StoreLocationInputs(o, location_nickname, location_address) ==
    [o EXCEPT !.temp_location.nickname = location_nickname,
              !.temp_location.address = location_address]

\* what a click did: the wizard state, whether go_to_step ran, the message
Clicked(o, moved, level, message) ==
    [o |-> o, moved |-> moved, shown |-> Message(level, message)]

Shows(r) ==
    /\ onboarding' = Collected(r.o)
    /\ admin_active_tab' = IF r.moved THEN "Add Client" ELSE admin_active_tab
    /\ shown' = r.shown

\* Next: Add Locations, lines 88 and 95-109; exists: get_clients() holds the
\* name (the model's clients table has no name column); dbError: get_clients
\* raised
Step1Next(client_name, exists, dbError) ==
    /\ onboarding.step = 1
    /\ lastOp' = <<"step1_next", 0>>
    /\ LET o == [onboarding EXCEPT !.client.name = client_name]
       IN Shows(IF client_name = "" \/ strip(client_name) = ""
                THEN Clicked(o, FALSE, "error", "Client name is required")
                ELSE IF dbError
                THEN Clicked(o, FALSE, "error", "Error validating client name")
                ELSE IF exists
                THEN Clicked(o, FALSE, "error", "Client already exists")
                ELSE Clicked(go_to_step(o, 2), TRUE, None, None))
    /\ UNCHANGED <<confirm_cancel, cancels, submission>>
    /\ UNCHANGED <<clients, locations, devices, sess, NotWizard>>

\* Cancel of step 1, lines 112-114
Step1Cancel ==
    /\ onboarding.step = 1
    /\ lastOp' = <<"step1_cancel", 0>>
    /\ onboarding' = reset_onboarding
    /\ cancels' = 0
    /\ shown' = NoMessage
    /\ UNCHANGED <<confirm_cancel, admin_active_tab, submission>>
    /\ UNCHANGED <<clients, locations, devices, sess, NotWizard>>

\* Next: Add Devices, lines 146, 157 and 164-173
Step2Next(location_nickname, location_address) ==
    /\ onboarding.step = 2
    /\ lastOp' = <<"step2_next", 0>>
    /\ LET o == StoreLocationInputs(onboarding, location_nickname, location_address)
       IN Shows(IF location_nickname = "" \/ strip(location_nickname) = ""
                THEN Clicked(o, FALSE, "error", "Location nickname is required")
                ELSE IF location_address = "" \/ strip(location_address) = ""
                THEN Clicked(o, FALSE, "error", "Location address is required")
                ELSE Clicked(go_to_step(
                                 [o EXCEPT !.temp_location.devices = NewList(o),
                                           !.lists = (NewList(o) :> <<>>) @@ @], 3),
                             TRUE, None, None))
    /\ UNCHANGED <<confirm_cancel, cancels, submission>>
    /\ UNCHANGED <<clients, locations, devices, sess, NotWizard>>

\* Back to Client, lines 146, 157 and 176-178
Step2Back(location_nickname, location_address) ==
    /\ onboarding.step = 2
    /\ lastOp' = <<"step2_back", 0>>
    /\ Shows(Clicked(go_to_step(StoreLocationInputs(onboarding, location_nickname,
                                                    location_address), 1),
                     TRUE, None, None))
    /\ UNCHANGED <<confirm_cancel, cancels, submission>>
    /\ UNCHANGED <<clients, locations, devices, sess, NotWizard>>

\* Skip to Review without asking whether a location was added
HasLocationsUnchecked(locs) == TRUE

\* len(locations) > 0, line 182
HasLocations(locs) == Len(locs) > 0

\* Skip to Review, lines 146, 157 and 181-186
Step2Skip(location_nickname, location_address) ==
    /\ onboarding.step = 2
    /\ lastOp' = <<"step2_skip", 0>>
    /\ LET o == StoreLocationInputs(onboarding, location_nickname, location_address)
       IN Shows(IF HasLocations(o.locations)
                THEN Clicked(go_to_step(o, 4), TRUE, None, None)
                ELSE Clicked(o, FALSE, "error",
                             "Add at least one location before reviewing"))
    /\ UNCHANGED <<confirm_cancel, cancels, submission>>
    /\ UNCHANGED <<clients, locations, devices, sess, NotWizard>>

\* lines 262-265: the serial numbers collected in this wizard run
all_serials(o) ==
    UNION {{o.lists[i][j].serial_number : j \in DOMAIN o.lists[i]} :
              i \in Referenced(o)}

\* Add Device, lines 258-291; dbError: get_device_by_serial raised
Step3AddDevice(device_name, serial_number, dbError) ==
    /\ onboarding.step = 3
    /\ lastOp' = <<"step3_add", 0>>
    /\ LET o == onboarding
       IN Shows(IF device_name = "" \/ serial_number = ""
                THEN Clicked(o, FALSE, "error",
                             "Device name and serial number are required")
                ELSE IF strip(serial_number) \in all_serials(o)
                THEN Clicked(o, FALSE, "error",
                             "Serial number already exists in this session")
                ELSE IF dbError \/ o.temp_location.devices = NoList
                THEN Clicked(o, FALSE, "error", "Error validating serial number")
                ELSE IF \E d \in devices : d.serial_number = strip(serial_number)
                THEN Clicked(o, FALSE, "error",
                             "Serial number already exists in database")
                ELSE Clicked([o EXCEPT !.lists[o.temp_location.devices] =
                                  Append(@, [name |-> strip(device_name),
                                             serial_number |-> strip(serial_number),
                                             firmware_version |-> None,
                                             status |-> "active"])],
                             FALSE, "success", "Device added!"))
    /\ UNCHANGED <<confirm_cancel, cancels, submission>>
    /\ UNCHANGED <<clients, locations, devices, sess, NotWizard>>

\* Finish Location, lines 294-310: temp_location.copy() is a new dictionary
\* that refers to the same devices list
Step3Finish ==
    /\ onboarding.step = 3
    /\ lastOp' = <<"step3_finish", 0>>
    /\ LET o == onboarding
       IN Shows(IF Len(temp_devices(o)) = 0
                THEN Clicked(o, FALSE, "error",
                             "Add at least one device to this location")
                ELSE Clicked(go_to_step(
                                 [o EXCEPT !.locations = Append(@, o.temp_location),
                                           !.temp_location =
                                               [nickname |-> "", address |-> "",
                                                devices |-> NewList(o)],
                                           !.lists = (NewList(o) :> <<>>) @@ @], 2),
                             TRUE, None, None))
    /\ UNCHANGED <<confirm_cancel, cancels, submission>>
    /\ UNCHANGED <<clients, locations, devices, sess, NotWizard>>

\* Back to Location, lines 313-315
Step3Back ==
    /\ onboarding.step = 3
    /\ lastOp' = <<"step3_back", 0>>
    /\ Shows(Clicked(go_to_step(onboarding, 2), TRUE, None, None))
    /\ UNCHANGED <<confirm_cancel, cancels, submission>>
    /\ UNCHANGED <<clients, locations, devices, sess, NotWizard>>

\* Review & Submit, lines 318-326: temp_location stays as it is
Step3Review ==
    /\ onboarding.step = 3
    /\ lastOp' = <<"step3_review", 0>>
    /\ LET o == onboarding
       IN Shows(IF Len(temp_devices(o)) = 0
                THEN Clicked(o, FALSE, "error",
                             "Add at least one device before reviewing")
                ELSE Clicked(go_to_step(
                                 [o EXCEPT !.locations = Append(@, o.temp_location)],
                                 4),
                             TRUE, None, None))
    /\ UNCHANGED <<confirm_cancel, cancels, submission>>
    /\ UNCHANGED <<clients, locations, devices, sess, NotWizard>>

\* Back to Edit, lines 383-387
Step4BackToEdit ==
    /\ onboarding.step = 4
    /\ lastOp' = <<"step4_back", 0>>
    /\ LET o == onboarding
       IN Shows(Clicked(
                    IF Len(o.locations) > 0
                    THEN go_to_step(
                             [o EXCEPT !.temp_location = o.locations[Len(o.locations)],
                                       !.locations = SubSeq(@, 1, Len(@) - 1)], 3)
                    ELSE go_to_step(o, 3),
                    TRUE, None, None))
    /\ UNCHANGED <<confirm_cancel, cancels, submission>>
    /\ UNCHANGED <<clients, locations, devices, sess, NotWizard>>

\* Cancel Everything, lines 390-396
Step4Cancel ==
    /\ onboarding.step = 4
    /\ lastOp' = <<"step4_cancel", 0>>
    /\ IF confirm_cancel
       THEN /\ onboarding' = reset_onboarding
            /\ cancels' = 0
            /\ shown' = NoMessage
            /\ UNCHANGED confirm_cancel
       ELSE /\ confirm_cancel' = TRUE
            /\ cancels' = cancels + 1
            /\ shown' = Message("warning", "Click again to confirm cancellation")
            /\ UNCHANGED onboarding
    /\ UNCHANGED <<admin_active_tab, submission>>
    /\ UNCHANGED <<clients, locations, devices, sess, NotWizard>>

\* the service calls submit_onboarding_data makes for the collected data, in
\* the order of lines 406-428
SubmitCalls(o) ==
    LET LocationCalls(k) ==
            <<[op |-> "create_location", loc |-> k, dev |-> 0]>>
            \o [j \in 1..Len(o.lists[o.locations[k].devices]) |->
                   [op |-> "create_device", loc |-> k, dev |-> j]]
        RECURSIVE From(_)
        From(k) == IF k > Len(o.locations) THEN <<>>
                   ELSE LocationCalls(k) \o From(k + 1)
    IN <<[op |-> "create_client", loc |-> 0, dev |-> 0]>> \o From(1)

\* the calls from the n-th on, each in a session of its own, up to the first
\* that raises; faultAt is the call that a constraint outside the model
\* (Client.name, uq_client_address) or the database fails
RECURSIVE RunCalls(_, _, _, _, _)
RunCalls(o, cs, n, faultAt, st) ==
    IF n > Len(cs) \/ st.raised THEN st
    ELSE LET c == cs[n]
             client_id == IF c.op = "create_client" THEN Max(st.db.clients) + 1
                          ELSE st.client_id
             loc_id == IF c.op = "create_location" THEN NextId(st.db.locations)
                       ELSE st.loc_id
             staged ==
                 CASE c.op = "create_client" ->
                          [st.db EXCEPT !.clients = @ \cup {client_id}]
                   [] c.op = "create_location" ->
                          [st.db EXCEPT !.locations =
                              @ \cup {[id |-> loc_id, client_id |-> client_id]}]
                   [] c.op = "create_device" ->
                          [st.db EXCEPT !.devices =
                              @ \cup {[id |-> NextId(st.db.devices),
                                       serial_number |->
                                           o.lists[o.locations[c.loc].devices][c.dev]
                                               .serial_number,
                                       client_id |-> client_id,
                                       location_id |-> loc_id]}]
             ok == FlushAccepted(staged) /\ n # faultAt
             g == get_session(st.db, staged, IF ok THEN "return" ELSE "raise",
                              st.log.seq)
         IN RunCalls(o, cs, n + 1, faultAt,
                     [db |-> g.db, log |-> g.log, client_id |-> client_id,
                      loc_id |-> loc_id, raised |-> ~ok,
                      created |-> IF ok THEN n ELSE n - 1])

\* a submission that resets the wizard whether it failed or not
AfterSubmitAlwaysReset(o, raised) == reset_onboarding

\* lines 437 and 442-444: reset_onboarding() is reached only when no call
\* raised
AfterSubmit(o, raised) == IF raised THEN o ELSE reset_onboarding

\* Submit All, lines 379-380 and 398-444
Step4Submit(faultAt) ==
    /\ onboarding.step = 4
    /\ submission.count < MaxSubmits
    /\ faultAt <= Len(SubmitCalls(onboarding))
    /\ lastOp' = <<"step4_submit", 0>>
    /\ LET cs == SubmitCalls(onboarding)
           r == RunCalls(onboarding, cs, 1, faultAt,
                         [db |-> Db, log |-> sess, client_id |-> 0, loc_id |-> 0,
                          raised |-> FALSE, created |-> 0])
       IN /\ clients' = r.db.clients
          /\ locations' = r.db.locations
          /\ devices' = r.db.devices
          /\ sess' = r.log
          /\ submission' = [count |-> submission.count + 1, raised |-> r.raised,
                            calls |-> Len(cs), created |-> r.created]
          /\ onboarding' = AfterSubmit(onboarding, r.raised)
          /\ cancels' = IF r.raised THEN cancels ELSE 0
          /\ shown' = IF r.raised
                      THEN Message("error", "Failed to create client setup")
                      ELSE Message("success", "Successfully created")
    /\ UNCHANGED <<confirm_cancel, admin_active_tab>>
    /\ UNCHANGED NotWizard

Wizard ==
    \/ \E n \in {"", " ", "Acme"}, exists \in BOOLEAN, dbError \in BOOLEAN :
           Step1Next(n, exists, dbError)
    \/ Step1Cancel
    \/ \E n \in NicknameInputs, a \in AddressInputs : Step2Next(n, a)
    \/ \E n \in NicknameInputs, a \in AddressInputs : Step2Back(n, a)
    \/ \E n \in NicknameInputs, a \in AddressInputs : Step2Skip(n, a)
    \/ \E n \in {"", "BMU"}, s \in SerialInputs, dbError \in BOOLEAN :
           Step3AddDevice(n, s, dbError)
    \/ Step3Finish
    \/ Step3Back
    \/ Step3Review
    \* the call of the submission that fails (0: none): there are at most a
    \* client, and a location and a device for every serial number
    \/ \E faultAt \in 0..(1 + 2 * Cardinality({strip(serial) : serial \in SerialInputs})) :
           Step4Submit(faultAt)
    \/ Step4BackToEdit
    \/ Step4Cancel

SpecWizard == Init /\ [][Wizard]_vars

\* ------------------------------------------------------------------------
\* backend/services.py (users), backend/user_profiles.py, backend/auth.py,
\* app/pages/login.py, app/pages/testLogin.py, app/pages/welcome.py,
\* app/session.py: the users, their profile files, and one UI session
\* ------------------------------------------------------------------------
\* the arguments the model calls the user services and the login forms with
Usernames == {"admin", "guest"}
Passwords == {"password123", "test"}
UserIds == 1..MaxUserOps

\* passlib's bcrypt: the hash of a password, and bcrypt.verify
bcrypt_hash(password) == <<"bcrypt", password>>
bcrypt_verify(password, hashed_password) == hashed_password = bcrypt_hash(password)

\* the variables the user services and the login pages leave alone
NotUsers == <<clock, clients, locations, devices, telemetry, manual, disk, stats,
              conn, pf, resp, pfres, ret, view, edit, calls, edits, received,
              answered, report, ops, crud, svc, onboarding, confirm_cancel,
              admin_active_tab, cancels, shown, submission, vf>>

\* User.username, unique=True
UsernamesUnique(rows) ==
    \A u1, u2 \in rows : u1.username = u2.username => u1.id = u2.id

\* create_user_profile, lines 41-69: open(profile_path, 'w') creates the file
\* (fault "open": it raises and creates nothing), json.dump writes it (fault
\* "dump": it raises after the file was created); the exception is re-raised
create_user_profile(files, user_id, fault) ==
    [files |-> IF fault = "open" THEN files ELSE files \cup {user_id},
     raised |-> fault \in {"open", "dump"}]

\* delete_user_profile, lines 151-164: a failing os.remove (fault "remove")
\* is logged and answered with False
delete_user_profile(files, user_id, fault) ==
    IF user_id \notin files THEN [files |-> files, returned |-> FALSE]
    ELSE IF fault = "remove" THEN [files |-> files, returned |-> FALSE]
    ELSE [files |-> files \ {user_id}, returned |-> TRUE]

\* create_user_with_profile, lines 527-549; fault "flush" or "commit": the
\* database refuses the flush or the commit
CreateUserWithProfile(username, password, fault) ==
    /\ ucall.count < MaxUserOps
    /\ lastOp' = <<"create_user_with_profile", NextId(users)>>
    /\ LET user == [id |-> NextId(users), username |-> username,
                    role |-> username,     \* the demo users are named by role
                    hashed_password |-> bcrypt_hash(password)]
           flushed == UsernamesUnique(users \cup {user}) /\ fault # "flush"
           written == IF flushed THEN create_user_profile(profiles, user.id, fault)
                      ELSE [files |-> profiles, raised |-> TRUE]
           ok == ~written.raised /\ fault # "commit"
           g == get_session(users, users \cup {user},
                            IF ok THEN "return" ELSE "raise", sess.seq)
       IN /\ users' = g.db
          /\ profiles' = written.files
          /\ sess' = g.log
          /\ ucall' = [count |-> ucall.count + 1, op |-> "create",
                       user_id |-> user.id, raised |-> ~ok,
                       returned |-> IF ok THEN "user" ELSE None]
    /\ UNCHANGED <<session_state, verified>>
    /\ UNCHANGED NotUsers

\* delete_user_with_profile, lines 628-642
DeleteUserWithProfile(user_id, fault) ==
    /\ ucall.count < MaxUserOps
    /\ lastOp' = <<"delete_user_with_profile", user_id>>
    /\ LET found == \E u \in users : u.id = user_id
           removed == delete_user_profile(profiles, user_id, fault)
           ok == ~(found /\ fault \in {"flush", "commit"})
           g == get_session(users, {u \in users : u.id # user_id},
                            IF ok THEN "return" ELSE "raise", sess.seq)
       IN /\ users' = g.db
          /\ profiles' = IF found THEN removed.files ELSE profiles
          /\ sess' = g.log
          /\ ucall' = [count |-> ucall.count + 1, op |-> "delete",
                       user_id |-> user_id, raised |-> ~ok,
                       returned |-> IF ~ok THEN None
                                    ELSE IF found THEN "True" ELSE "False"]
    /\ UNCHANGED <<session_state, verified>>
    /\ UNCHANGED NotUsers

\* login_user, lines 7-11
login_user(rows, username, password) ==
    {u \in rows : u.username = username
                  /\ bcrypt_verify(password, u.hashed_password)}

\* testMode, lines 14-18: password is not looked at
testMode(rows, username, password) == {u \in rows : u.username = username}

\* lines 34-38 of login.py and 29-33 of testLogin.py
LoggedIn(user) ==
    [page |-> "dashboard", user |-> user.username, username |-> user.username,
     role |-> user.role, user_id |-> user.id]

\* welcome.py, lines 62-64: Get Started
GetStarted ==
    /\ session_state.page = "welcome"
    /\ lastOp' = <<"get_started", 0>>
    /\ session_state' = [session_state EXCEPT !.page = "login"]
    /\ UNCHANGED <<users, profiles, ucall, verified, sess>>
    /\ UNCHANGED NotUsers

\* welcome.py, lines 65-67: Test
Test ==
    /\ session_state.page = "welcome"
    /\ lastOp' = <<"test", 0>>
    /\ session_state' = [session_state EXCEPT !.page = "testLogin"]
    /\ UNCHANGED <<users, profiles, ucall, verified, sess>>
    /\ UNCHANGED NotUsers

\* login.py, lines 28-50: Login; dbError: login_user raised
Login(username, password, dbError) ==
    /\ session_state.page = "login"
    /\ lastOp' = <<"login", 0>>
    /\ LET found == login_user(users, username, password)
           entered == username # "" /\ password # "" /\ ~dbError /\ found # {}
       IN /\ session_state' = IF entered THEN LoggedIn(CHOOSE u \in found : TRUE)
                              ELSE session_state
          /\ verified' = (verified \/ entered)
          /\ sess' = IF username = "" \/ password = "" THEN sess
                     ELSE get_session(users, users,
                                      IF dbError THEN "raise"
                                      ELSE IF found # {} THEN "return"
                                      ELSE "normal", sess.seq).log
    /\ UNCHANGED <<users, profiles, ucall>>
    /\ UNCHANGED NotUsers

\* login.py, lines 52-54: Back
LoginBack ==
    /\ session_state.page = "login"
    /\ lastOp' = <<"login_back", 0>>
    /\ session_state' = [session_state EXCEPT !.page = "welcome"]
    /\ UNCHANGED <<users, profiles, ucall, verified, sess>>
    /\ UNCHANGED NotUsers

\* testLogin.py, lines 22-43: Login with the selected role as the username
TestLogin(option, dbError) ==
    /\ session_state.page = "testLogin"
    /\ lastOp' = <<"test_login", 0>>
    /\ LET found == testMode(users, option, "test")
       IN /\ session_state' = IF ~dbError /\ found # {}
                              THEN LoggedIn(CHOOSE u \in found : TRUE)
                              ELSE session_state
          /\ sess' = get_session(users, users,
                                 IF dbError THEN "raise"
                                 ELSE IF found # {} THEN "return"
                                 ELSE "normal", sess.seq).log
    /\ UNCHANGED <<users, profiles, ucall, verified>>
    /\ UNCHANGED NotUsers

\* session.py logout, lines 22-26 (the header's Logout button on the
\* dashboard)
Logout ==
    /\ session_state.page = "dashboard"
    /\ lastOp' = <<"logout", 0>>
    /\ session_state' = [page |-> "welcome", user |-> None, username |-> None,
                         role |-> None, user_id |-> None]
    /\ verified' = FALSE
    /\ UNCHANGED <<users, profiles, ucall, sess>>
    /\ UNCHANGED NotUsers

Users ==
    \/ \E u \in Usernames, p \in Passwords,
          f \in {"none", "flush", "open", "dump", "commit"} :
           CreateUserWithProfile(u, p, f)
    \/ \E id \in UserIds, f \in {"none", "remove", "flush", "commit"} : DeleteUserWithProfile(id, f)
    \/ GetStarted
    \/ Test
    \/ \E u \in Usernames \cup {""}, p \in Passwords \cup {""}, e \in BOOLEAN :
           Login(u, p, e)
    \/ LoginBack
    \/ \E o \in Usernames, e \in BOOLEAN : TestLogin(o, e)
    \/ Logout

SpecUsers == Init /\ [][Users]_vars

\* ------------------------------------------------------------------------
\* backend/file_utils.py: validateFile, row by row. A file is its size, its
\* headers, the number of its data rows and how many of them, the first
\* ones, are empty. The checks of the values of a row (lines 145-156), which
\* only add warnings, are left out.
\* ------------------------------------------------------------------------
RowLimit == 1000

RowFiles ==
    {[size |-> 64, headers |-> h, emptyRows |-> e, rows |-> n] :
        h \in {REQUIRED_HEADERS, REQUIRED_HEADERS \ {"voltage"}},
        e \in {0, 1},
        n \in {0, 1, RowLimit - 1, RowLimit, RowLimit + 1, RowLimit + 2}}
    \cup {[size |-> 0, headers |-> {}, emptyRows |-> 0, rows |-> 0]}

RowLimitWarning == "Only validated first 1000 rows due to file size."

\* the variables validateFile leaves alone
NotValidation == <<clock, clients, locations, devices, telemetry, manual, disk,
                   stats, conn, pf, resp, pfres, sess, ret, view, edit, calls,
                   edits, received, answered, report, ops, crud, svc,
                   onboarding, confirm_cancel, admin_active_tab, cancels,
                   shown, submission, users, profiles, ucall, session_state,
                   verified>>

\* lines 26-135: the result is set up, and the size and the headers of the
\* file are checked
ValidateOpen(csv, requiredHeaders) ==
    /\ vf.pc \in {"idle", "done"}
    /\ csv.emptyRows <= csv.rows
    /\ lastOp' = <<"validateFile", 0>>
    /\ LET sizeWarn == IF csv.size > 100 * 1024 * 1024
                       THEN {"File is very large"} ELSE {}
           result == [pc |-> "rows", csv |-> csv, i |-> 0, rowCount |-> 0,
                      empty_rows |-> 0, warnings |-> sizeWarn, success |-> TRUE,
                      message |-> "CSV file is valid"]
       IN vf' = IF csv.size = 0
                THEN [result EXCEPT !.pc = "done", !.success = FALSE,
                                    !.message = "File is empty."]
                ELSE IF requiredHeaders # {}
                        /\ {h \in requiredHeaders : h \notin csv.headers} # {}
                THEN [result EXCEPT !.pc = "done", !.success = FALSE,
                                    !.message = "Missing required headers"]
                ELSE result
    /\ UNCHANGED NotValidation

\* lines 142-161: one turn of the loop over the rows
ValidateRow ==
    /\ vf.pc = "rows"
    /\ vf.i < vf.csv.rows
    /\ lastOp' = <<"validateFile_row", 0>>
    /\ LET i == vf.i + 1
       IN vf' = [vf EXCEPT
                    !.i = i,
                    !.rowCount = @ + 1,
                    !.empty_rows = IF i <= vf.csv.emptyRows THEN @ + 1 ELSE @,
                    !.warnings = IF i > RowLimit THEN @ \cup {RowLimitWarning}
                                 ELSE @,
                    !.pc = IF i > RowLimit THEN "after" ELSE "rows"]
    /\ UNCHANGED NotValidation

\* lines 163-177: after the loop, ended by the last row or by the break
ValidateReturn ==
    /\ \/ vf.pc = "after"
       \/ vf.pc = "rows" /\ vf.i = vf.csv.rows
    /\ lastOp' = <<"validateFile_return", 0>>
    /\ vf' = [vf EXCEPT !.pc = "done",
                        !.warnings = IF vf.empty_rows > 0
                                     THEN @ \cup {"Found empty rows"} ELSE @]
    /\ UNCHANGED NotValidation

Validation ==
    \/ \E csv \in RowFiles, requiredHeaders \in {{}, REQUIRED_HEADERS} :
           ValidateOpen(csv, requiredHeaders)
    \/ ValidateRow
    \/ ValidateReturn

SpecValidation == Init /\ [][Validation]_vars

Next ==
    \/ Tick \/ Receiver \/ Ingestion \/ Flags \/ Services \/ Service
    \/ Wizard \/ Users \/ Validation

Spec == Init /\ [][Next]_vars

\* ========================================================================
\* Properties
\* ========================================================================
Lacking(csv) == REQUIRED_HEADERS \ csv.headers

\* the device row the headers X-Device-Serial and X-Device-ID name
Matches(serial, did) ==
    \E d \in devices : d.serial_number = serial /\ IsInt(did) /\ d.id = ParseInt(did)

\* C1: every accepted telemetry upload adds one row and one new file that is
\* the file of no earlier upload, so the telemetry rows and the files they
\* name are equally many.
C1_OneNewFilePerAcceptedUpload ==
    Cardinality({r.directory : r \in telemetry}) = Cardinality(telemetry)

\* C2: an upload whose CSV lacks a required header is rejected, the message
\* names the missing headers, and no row is created: by process_file in
\* either mode and by the receiver.
C2_MissingHeaderRejected ==
    /\ (lastOp[1] = "pf_return" /\ Lacking(pfres.csv) # {})
          => /\ ~pfres.success
             /\ pfres.missing = Lacking(pfres.csv)
             /\ pfres.rowid = 0
    /\ \A k \in Conns :
          (conn[k].pc = "respond" /\ Lacking(conn[k].req.csv) # {})
             => /\ ~conn[k].result.success
                /\ conn[k].rowid = 0

\* C3: an ingestion attempt that fails after its file was written has deleted
\* the file when it returns its error: by process_file and by the receiver.
C3_FailedUploadLeavesNoFile ==
    /\ (lastOp[1] = "pf_return" /\ ~pfres.success /\ pfres.path # <<>>)
          => pfres.path \notin DOMAIN disk
    /\ \A k \in Conns :
          (conn[k].pc = "respond" /\ ~conn[k].result.success)
             => conn[k].path \notin DOMAIN disk

C5_EveryResponseIsJson ==
    resp.method = "POST"
       => /\ resp.kind = "json"
          /\ {"success", "message"} \subseteq resp.fields
          /\ resp.status = 200
                => {"file_id", "file_path", "validation_info"} \subseteq resp.fields

ToggleTwice(rows, id) == toggle_guest_flag(toggle_guest_flag(rows, id).rows, id).rows

FlagOf(rows, id) == (CHOOSE r \in rows : r.id = id).guest_flag

ToggleChangesAndMissesNothing(rows) ==
    /\ \A r \in rows :
          FlagOf(toggle_guest_flag(rows, r.id).rows, r.id) # r.guest_flag
    /\ \A id \in RowIds(rows) \ {r.id : r \in rows} :
          /\ toggle_guest_flag(rows, id).returned = None
          /\ toggle_guest_flag(rows, id).rows = rows

\* C6 as claimed: for every telemetry row and every manual-upload row, two
\* toggles in succession restore guest_flag and one toggle changes it; a
\* toggle of an id without a row returns None and changes nothing.
C6_ToggleTwiceRestores ==
    \A rows \in {telemetry, manual} :
       /\ \A r \in rows : ToggleTwice(rows, r.id) = rows
       /\ ToggleChangesAndMissesNothing(rows)

\* C6 as amended: two toggles restore guest_flag of every row whose flag is 0
\* or 1; one toggle changes the flag of every row; a toggle of an id without
\* a row returns None and changes nothing.
C6_ToggleTwiceRestoresBooleanFlag ==
    \A rows \in {telemetry, manual} :
       /\ \A r \in rows : r.guest_flag \in {0, 1} => ToggleTwice(rows, r.id) = rows
       /\ ToggleChangesAndMissesNothing(rows)

C6_Witness ==
    /\ lastOp[1] = "toggle_telemetry"
    /\ ret = "row"
    /\ FlagOf(telemetry, lastOp[2]) = 1

\* C7: what the gallery has just returned to a guest session holds only
\* datasets whose guest_flag is set in the database.
C7_GuestSeesOnlyFlagged ==
    (lastOp[1] = "gallery" /\ view.role = "guest")
       => /\ \A id \in view.telemetry :
                \E r \in telemetry : r.id = id /\ r.guest_flag # 0
          /\ \A id \in view.manual :
                \E r \in manual : r.id = id /\ r.guest_flag # 0

C7_Witness ==
    /\ lastOp[1] = "gallery"
    /\ view.role = "guest"
    /\ view.telemetry # {}
    /\ \E r \in telemetry : r.guest_flag = 0 /\ r.id \notin view.telemetry
    /\ \E r \in manual : r.guest_flag = 0 /\ r.id \notin view.manual

\* C8: at most one request is in its handler at any time, and a request
\* (upload or health) is taken up only while no other is being handled.
C8_OneRequestAtATime ==
    /\ Cardinality(Active) <= 1
    /\ lastOp[1] \in {"accept", "health"} => Active \subseteq {lastOp[2]}

C8_Witness ==
    /\ \E k \in Conns : conn[k].pc = "insert"
    /\ stats.total_uploads = 1

\* C9: each use of get_session commits exactly when its body did not raise,
\* rolls back and re-raises exactly when it did, and closes the session; a
\* body that raised leaves the tables as they were, and a row inserted by a
\* body that did not raise is in its table afterwards.
C9_CommitOrRollback ==
    [][sess'.seq # sess.seq
         => /\ sess'.closed
            /\ sess'.committed <=> sess'.outcome \in {"normal", "return"}
            /\ sess'.rolled_back <=> sess'.outcome = "raise"
            /\ sess'.reraised <=> sess'.outcome = "raise"
            /\ sess'.outcome = "raise" => (telemetry' = telemetry /\ manual' = manual)
            /\ (sess'.outcome = "normal" /\ lastOp'[1] = "pf_return")
                  => \E r \in (telemetry' \cup manual') \ (telemetry \cup manual) :
                        r.id = pfres'.rowid]_vars

C9_Witness ==
    /\ sess.outcome = "raise"
    /\ sess.rolled_back
    /\ lastOp[1] = "pf_return"
    /\ pfres.message = "Processing failed"

\* C10: no manual upload overwrites the file of an earlier manual upload, so
\* no two manual-upload rows name the same file, also when two UI sessions
\* run process_file at the same time.
C10_ManualFilesNeverOverwritten ==
    Cardinality({r.file_directory : r \in manual}) = Cardinality(manual)

\* C11: a call of process_file is a telemetry upload (file under telemetry/,
\* telemetry row) exactly when client_id, location_id and device_id were all
\* supplied, and a manual upload (file under manual/, manual-upload row)
\* otherwise.
C11_TelemetryExactlyWhenAllSupplied ==
    lastOp[1] = "pf_return"
       => LET supplied == \A i \in 1..3 : pfres.ids[i] # NoneId
          IN /\ pfres.mode = "telemetry" <=> supplied
             /\ pfres.path[1] = (IF supplied THEN "telemetry" ELSE "manual")
             /\ pfres.success
                   => IF supplied
                      THEN \E r \in telemetry : r.id = pfres.rowid
                                                /\ r.directory = pfres.path
                      ELSE \E r \in manual : r.id = pfres.rowid
                                             /\ r.file_directory = pfres.path

\* the references a returned telemetry-mode call was made with have rows
KnownIds(ids) ==
    /\ \E c \in clients : c = ids[1]
    /\ \E l \in locations : l.id = ids[2]
    /\ \E d \in devices : d.id = ids[3]

\* C12 as claimed: a telemetry-mode call of process_file with an id that has
\* no row returns success False with the message 'Invalid
\* client/location/device reference' and creates no telemetry row.
C12_UnknownReferenceMessage ==
    (lastOp[1] = "pf_return" /\ pfres.mode = "telemetry" /\ ~KnownIds(pfres.ids))
       => /\ ~pfres.success
          /\ pfres.message = "Invalid client/location/device reference"
          /\ pfres.rowid = 0
          /\ \A r \in telemetry : r.directory # pfres.path

\* C12 as amended: such a call returns success False and creates no
\* telemetry row (no row with an unknown reference exists at all); its message
\* is 'Invalid client/location/device reference' unless validation of the
\* saved file failed first, and then it is the validation message.
C12_UnknownReferenceRejected ==
    (lastOp[1] = "pf_return" /\ pfres.mode = "telemetry" /\ ~KnownIds(pfres.ids))
       => /\ ~pfres.success
          /\ pfres.rowid = 0
          /\ \A r \in telemetry : r.directory # pfres.path /\ KnownIds(
                                       <<r.client_id, r.location_id, r.device_id>>)
          /\ \/ pfres.message = "Invalid client/location/device reference"
             \/ pfres.message = "Missing required headers" /\ pfres.missing # {}
          /\ Lacking(disk[pfres.path]) = {}
                => pfres.message = "Invalid client/location/device reference"

C12_Witness ==
    /\ lastOp[1] = "pf_return"
    /\ pfres.mode = "telemetry"
    /\ ~KnownIds(pfres.ids)
    /\ pfres.message = "Invalid client/location/device reference"
    /\ pfres.path \in DOMAIN disk

\* the rows of the three dependent tables that name a client, a location or
\* a device
RefsClient(id) ==
    {r \in locations \cup devices \cup telemetry : r.client_id = id}
RefsLocation(id) == {r \in devices \cup telemetry : r.location_id = id}
RefsDevice(id) == {r \in telemetry : r.device_id = id}

\* C13: after any sequence of create, update and delete service calls every
\* location names an existing client, every device an existing client and an
\* existing location, every telemetry row an existing client, location and
\* device; a delete of a client, location or device goes through and leaves
\* no row that depends on the deleted one.
C13_ReferentialIntegrity ==
    /\ \A r \in locations \cup devices \cup telemetry :
          \E c \in clients : c = r.client_id
    /\ \A r \in devices \cup telemetry : \E l \in locations : l.id = r.location_id
    /\ \A r \in telemetry : \E d \in devices : d.id = r.device_id
    /\ lastOp[1] = "delete_client"
          => /\ ~crud.raised
             /\ lastOp[2] \notin clients
             /\ RefsClient(lastOp[2]) = {}
    /\ lastOp[1] = "delete_location"
          => /\ ~crud.raised
             /\ \A l \in locations : l.id # lastOp[2]
             /\ RefsLocation(lastOp[2]) = {}
    /\ lastOp[1] = "delete_device"
          => /\ ~crud.raised
             /\ \A d \in devices : d.id # lastOp[2]
             /\ RefsDevice(lastOp[2]) = {}

C13_Witness ==
    /\ lastOp = <<"delete_location", 1>>
    /\ crud.returned = "True"
    /\ devices = {}
    /\ telemetry = {}
    /\ 1 \in clients

\* C14: no two device rows ever share a serial number, and create_device or
\* update_device with a serial number that another device holds raises and
\* leaves the devices table as it was.
C14_SerialNumbersUnique ==
    /\ [](\A d1, d2 \in devices :
             d1.serial_number = d2.serial_number => d1 = d2)
    /\ [][/\ lastOp'[1] \in {"create_device", "update_device"}
          /\ \E d \in devices :
                /\ d.serial_number = crud'.serial
                /\ lastOp'[1] = "update_device"
                      => /\ d.id # lastOp'[2]
                         /\ \E e \in devices : e.id = lastOp'[2]
          => crud'.raised /\ devices' = devices]_vars

C14_Witness ==
    /\ lastOp[1] = "create_device"
    /\ crud.raised
    /\ crud.serial = "S3"
    /\ Cardinality({d \in devices : d.serial_number = "S3"}) = 1

\* C15: every telemetry row the receiver created carries the client_id and
\* the location_id of the device row that X-Device-Serial and X-Device-ID
\* authenticated (the row's device).
C15_RowCarriesDeviceOwner ==
    \A t \in telemetry :
       \E d \in devices : /\ d.id = t.device_id
                          /\ d.client_id = t.client_id
                          /\ d.location_id = t.location_id

\* C16: a db_editor update that reports success False leaves the tables, and
\* so the addressed record, as they were before the command.
C16_FailedUpdateChangesNothing ==
    [][(lastOp'[1] = "update_record" /\ ~edit'.success)
          => (telemetry' = telemetry /\ manual' = manual)]_vars

C20_AtMostOneServerThread ==
    /\ Cardinality(Alive) <= 1
    /\ lastOp[1] = "start_noop" => svc.pc = "idle"

\* C18: each upload request that was answered added one to exactly one of
\* total_uploads and failed_uploads, so the two add up to the number of
\* upload requests handled, and get_stats reports as success_rate the
\* percentage of the handled requests that succeeded.
C18_CountersCountEveryRequest ==
    /\ stats.total_uploads + stats.failed_uploads = answered
    /\ (lastOp[1] = "get_stats" /\ answered > 0)
          => report.success_rate = (stats.total_uploads * 100) \div answered

\* C19: in every state that GET /health or get_stats reports,
\* validation_failures <= failed_uploads; no counter ever decreases; GET
\* /health changes no counter.
C19_ValidationFailuresAreFailures ==
    /\ [](report.validation_failures <= report.failed_uploads)
    /\ [][/\ \A f \in DOMAIN stats : stats'[f] >= stats[f]
          /\ lastOp'[1] = "health" => stats' = stats]_vars

\* C21: once stop() has returned on a running service, and until the next
\* start(), running and service_stats['active'] are False and no server thread
\* of the service accepts requests, also when stop() came before the server
\* thread had created its HTTP server.
C21_StoppedServiceServesNothing ==
    (svc.last = "stop" /\ svc.pc = "idle")
       => /\ ~svc.running
          /\ ~svc.active
          /\ Serving = {}

\* C22: when the server thread has ended because its HTTP server could not be
\* created and start() has returned, the service is not running (running
\* False, active False, is_running() False), and a start() that launches no
\* thread finds a live server thread.
C22_FailedServerLeavesNotRunning ==
    /\ (svc.pc = "idle" /\ Alive = {})
          => (~svc.running /\ ~svc.active /\ ~is_running)
    /\ lastOp[1] = "start_noop" => Alive # {}

\* C23: submit_onboarding_data compensates nothing. When one of its service
\* calls raises, the rows the earlier calls created stay committed and no
\* other row appears or disappears, the error is shown and the wizard state
\* is the one before the click, at step 4; when no call raises, every row is
\* created and the wizard is reset to step 1.
C23_SubmitWithoutCompensation ==
    [][lastOp'[1] = "step4_submit" =>
          LET created == Cardinality(clients' \ clients)
                           + Cardinality(locations' \ locations)
                           + Cardinality(devices' \ devices)
          IN /\ clients \subseteq clients'
             /\ locations \subseteq locations'
             /\ devices \subseteq devices'
             /\ created = submission'.created
             /\ IF submission'.raised
                THEN /\ created < submission'.calls
                     /\ shown'.level = "error"
                     /\ onboarding' = onboarding
                     /\ onboarding'.step = 4
                ELSE /\ created = submission'.calls
                     /\ onboarding' = InitialOnboarding
                     /\ onboarding'.step = 1]_vars

\* a submission failed on a device after the client and a location were
\* created
C23_Witness ==
    /\ lastOp[1] = "step4_submit"
    /\ submission.raised
    /\ submission.created >= 2
    /\ onboarding.step = 4

\* C24: in every reachable wizard state the step is 1..4, every completed
\* location has a non-empty nickname, a non-empty address and at least one
\* device, and the wizard is at step 4, and comes to it, only with a location
\* in the list.
C24_WizardStateValid ==
    /\ [](/\ onboarding.step \in 1..4
          /\ \A k \in DOMAIN onboarding.locations :
                LET entry == onboarding.locations[k]
                IN /\ entry.nickname # ""
                   /\ entry.address # ""
                   /\ entry.devices # NoList
                   /\ Len(onboarding.lists[entry.devices]) >= 1
          /\ onboarding.step = 4 => Len(onboarding.locations) >= 1)
    /\ [][(onboarding.step # 4 /\ onboarding'.step = 4)
             => Len(onboarding'.locations) >= 1]_vars

\* two locations are reviewed after one of them was taken back for editing
C24_Witness ==
    /\ onboarding.step = 4
    /\ Len(onboarding.locations) = 2
    /\ lastOp[1] = "step3_review"

\* C25: the first Cancel Everything click of a wizard run changes nothing of
\* the onboarding data and shows 'Click again to confirm cancellation'.
C25_FirstCancelOnlyAsks ==
    [][(lastOp'[1] = "step4_cancel" /\ cancels = 0)
          => /\ onboarding' = onboarding
             /\ confirm_cancel'
             /\ shown' = Message("warning", "Click again to confirm cancellation")]_vars

\* C26: after any create_user_with_profile and delete_user_with_profile
\* calls, failing ones included, a user has a row in table users exactly when
\* the user's JSON profile file exists.
C26_UserRowIffProfileFile ==
    \A id \in UserIds : (\E u \in users : u.id = id) <=> id \in profiles

\* C27: whenever the session's page is 'dashboard', a password was verified
\* against the stored hash of the user since the session's last logout.
C27_DashboardOnlyAfterVerifiedLogin ==
    session_state.page = "dashboard" => verified

\* C28: a validateFile call that has returned successfully reports a rowCount
\* of at most 1000, and its warnings hold 'Only validated first 1000 rows due
\* to file size.' exactly when the file has more than 1000 data rows.
C28_RowCountWithinLimit ==
    (vf.pc = "done" /\ vf.success)
        => /\ vf.rowCount <= RowLimit
           /\ RowLimitWarning \in vf.warnings <=> vf.csv.rows > RowLimit

====
